---- MODULE Spec2Model ----
(***************************************************************************)
(* A model of the request scheduler (RequestQueue), of the retry executor  *)
(* (RetryUtil) and of the batch transfer engine (BatchTokenSender with the *)
(* command line run of BatchSenderCLI) of evm-chain-toolkit.               *)
(*                                                                         *)
(* RequestQueue is modelled as one state machine whose steps are the       *)
(* JavaScript callbacks of the class: a call of enqueue, clear, destroy or *)
(* waitForCompletion, one firing of the setInterval timer (processQueue up *)
(* to its await), the continuation of processQueue after the awaited       *)
(* operation settled, and one firing of waitForCompletion's poll timer.    *)
(* JavaScript runs each of them to completion, so each is one action.      *)
(*                                                                         *)
(* A batch run is one sequential async function: its steps are the         *)
(* preflight (validation and balance check), the nonce read at the start   *)
(* of a batch, one invocation of executeTransfer inside executeWithRetry,  *)
(* the end of a backoff sleep, and the reporting phase.  The chain and the *)
(* provider are the environment: every call to them succeeds or fails as   *)
(* the environment chooses.                                                *)
(***************************************************************************)
EXTENDS Integers, Sequences, FiniteSets, TLC

\* ---------------------------------------------------------------- bounds
\* Number of enqueue calls made on one RequestQueue.
MaxReq == 3
\* Largest maxConcurrent the queue is constructed with.
MaxConc == 2
\* Number of timer callbacks counted by the tick observer.
MaxTicks == 4
\* Number of callers of waitForCompletion.
NumWaiters == 1
\* Largest maxRetries a RetryUtil is constructed with.
MaxRetriesBound == 3
\* Largest number of recipients handed to one batch run.
MaxRecipients == 3
\* Largest batchSize a BatchTokenSender is configured with.
MaxBatchSize == 3
\* Number of significant bits of the floating-point numbers parseFloat
\* produces (53 in the program; the rounding is the same at any width).
MantissaBits == 3
\* Number of logical calls made on an EtherscanClient.
MaxCalls == 2
\* Largest maxRetries an EtherscanClient is configured with.
MaxAttempts == 2
\* The page size of a paginated fetch (offset, 10000 in the program).
PageSize == 2
\* The page at which the explorer has run out of full pages at the latest.
MaxPages == 3
\* getTokenInfo calls followed per contract.
MaxQueries == 3
\* The digits of a private key that make up an address (40 in the program).
AddressDigits == 2

\* ------------------------------------------------------ program constants
\* RequestQueue.createDefaultConfig().rateLimitPerSecond
RateLimitPerSecond == 5

Reqs == 1..MaxReq
Waiters == 1..NumWaiters

VARIABLES
    \* --- RequestQueue
    maxConcurrent,   \* config.maxConcurrent
    queue,           \* this.queue: the pending requests, oldest first
    activeRequests,  \* this.activeRequests
    intervalId,      \* TRUE while this.intervalId holds a running timer
    \* --- what the callers of the queue observe
    enqueued,        \* number of enqueue calls so far; request r is the r-th call
    status,          \* r -> "none" | "pending" | "running" | "settled"
    outcome,         \* r -> what r's promise was settled with (the first settle wins)
    settles,         \* r -> number of calls of r's resolve/reject
    dispatched,      \* the requests whose fn was invoked, in invocation order
    ticks,           \* number of timer callbacks so far
    destroyed,       \* destroy() has been called
    waiting,         \* w -> "none" | "polling" | "resolved" (waitForCompletion)
    \* --- RetryUtil.executeWithRetry
    rconfig,         \* this.config: maxRetries, baseDelayMs, maxDelayMs, backoffMultiplier
    plan,            \* fn: the number of failures before it succeeds, or Always
    rpc,             \* position: "idle" | "loop" | "sleep" | "returned" | "threw"
    attempt,         \* the loop variable
    calls,           \* number of invocations of fn
    lastError,       \* the local lastError; "undefined" until assigned
    delays,          \* the sleeps performed, in order
    raised,          \* what executeWithRetry threw: a RetryError, or the bare
                     \* value of lastError (its name field holds that value)
    \* --- BatchTokenSender / BatchSenderCLI
    bconfig,         \* this.config: dryRun, batchSize, maxRetries, retryDelayMs
    entry,           \* the run's entry point: "executeBatch" | "run" (the CLI)
    recipients,      \* the recipient list the run is given
    work,            \* the list handed to executeBatchTransfers
    short,           \* what the wallet really lacks: [token, matic] (ground truth)
    bpc,             \* position: "start" | "batch" | "transfer" | "returned" |
                     \* "rejected" (preflight raised) | "aborted" | "done"
    nextIdx,         \* index in work of the recipient in progress
    currentNonce,    \* the local currentNonce of the batch in progress
    results,         \* the local results of executeBatchTransfers
    fetched,         \* the nonces read from the provider, one per batch started
    transferLog,     \* every executeTransfer call: [idx, nonce, estimated,
                     \* broadcast, failure]
    sent,            \* every transaction the chain accepted: [idx, nonce]
    pauses,          \* the delays of the batch loop: [ms, after]
    received,        \* the outcome list the caller holds after the run
    report,          \* the report generated from it, or NoReport
    \* --- BatchReportManager and the report phase of BatchSenderCLI.run
    outcomes,        \* the outcome list the report phase is given
    ppc,             \* position: "idle" | "start" | "reportSaved" | "finished" |
                     \* "exited" (process.exit(1)) | "reloaded"
    batchReport,     \* the local report of run, or NoReport
    reportFile,      \* the batch report on disk, or NoFile
    failedFile,      \* the failed-transfers file on disk, or NoFile
    writes,          \* every writeFileSync attempted: [file, ok]
    loaded,          \* what loading failedFile gave a new run, or NotLoaded
    signer,          \* the sender of the run: [privateKey, address]
    senderAddress,   \* summary.senderAddress of the report on disk, or <<>>
    \* --- EtherscanClient
    xcall,           \* r -> the executeWithRetry of logical call r: [pc, attempt,
                     \* lastError, answer (the last response), result]
    apiCallCount,    \* this.apiCallCount
    roundTrips,      \* the gets that resolved with a response since construction
                     \* or the last resetApiCallCount
    justReset,       \* the last step of the client was resetApiCallCount
    \* --- TransactionFilterService / TokenParser
    filter,          \* the TransactionFilter of the call
    fpc,             \* position: "idle" | "start" | "fetching" | "metadata" |
                     \* "returned" | "rejected"
    fetch,           \* category -> its paginated fetch: [pc, records, error]
    kept,            \* category -> the records left by the two filters
    metadataMap,     \* contract -> what getTokenMetadata gave in this call:
                     \* "none" | "pending" | "null" | "info"
    tokenMetadataCache, \* the contracts in this.tokenMetadataCache
    parsed,          \* the local parsedTokenTransfers
    filterResult,    \* result.transactions, once returned
    filterError,     \* what filterTransactions rejected with
    \* --- one paginated fetch (fetchAllTransactions and its four siblings)
    method,          \* the client method the fetch pages through
    page,            \* the local page
    requests,        \* the client calls made so far: [page, offset]
    pages,           \* the pages received so far
    allRows,         \* the local allTransactions / allTransfers
    gpc,             \* position: "idle" | "awaiting" | "returned" | "rejected"
    \* --- TokenParser.getTokenMetadata under overlapping filter runs
    lookup,          \* run -> contract -> "none" | "pending" | "info" | "null"
    issued,          \* contract -> number of getTokenInfo calls made
    succeeded,       \* contract -> number of those that resolved
    \* --- the for loop of BatchTokenSender.chunkArray
    carray,          \* the parameter array
    csize,           \* the parameter size
    ci,              \* the loop variable i
    chunks,          \* the local chunks
    cpc              \* position: "idle" | "test" | "body" | "returned"

qvars == <<maxConcurrent, queue, activeRequests, intervalId, enqueued, status,
           outcome, settles, dispatched, ticks, destroyed, waiting>>
rvars == <<rconfig, plan, rpc, attempt, calls, lastError, delays, raised>>
bvars == <<bconfig, entry, recipients, work, short, bpc, nextIdx, currentNonce,
           results, fetched, transferLog, sent, pauses, received, report>>
pvars == <<outcomes, ppc, batchReport, reportFile, failedFile, writes, loaded,
           signer, senderAddress>>
evars == <<xcall, apiCallCount, roundTrips, justReset>>
fvars == <<filter, fpc, fetch, kept, metadataMap, tokenMetadataCache, parsed,
           filterResult, filterError>>
gvars == <<method, page, requests, pages, allRows, gpc>>
tvars == <<lookup, issued, succeeded>>
cvars == <<carray, csize, ci, chunks, cpc>>
\* What the actions of one component leave alone.
restOfQueue == <<rvars, bvars, pvars, evars, fvars, gvars, tvars, cvars>>
restOfRetry == <<qvars, bvars, pvars, evars, fvars, gvars, tvars, cvars>>
restOfBatch == <<qvars, pvars, evars, fvars, gvars, tvars, cvars>>
restOfReport == <<qvars, rvars, bvars, evars, fvars, gvars, tvars, cvars>>
restOfExplorer == <<rvars, bvars, pvars, fvars, gvars, tvars, cvars>>
restOfFilter == <<qvars, rvars, bvars, pvars, evars, gvars, tvars, cvars>>
restOfPager == <<qvars, rvars, bvars, pvars, evars, fvars, tvars, cvars>>
restOfParser == <<qvars, rvars, bvars, pvars, evars, gvars, filter, fpc, fetch,
                  kept, metadataMap, parsed, filterResult, filterError, cvars>>
restOfChunker == <<qvars, rvars, bvars, pvars, evars, fvars, gvars, tvars>>
vars == <<maxConcurrent, queue, activeRequests, intervalId, enqueued, status,
          outcome, settles, dispatched, ticks, destroyed, waiting,
          rconfig, plan, rpc, attempt, calls, lastError, delays, raised,
          bconfig, entry, recipients, work, short, bpc, nextIdx, currentNonce,
          results, fetched, transferLog, sent, pauses, received, report,
          outcomes, ppc, batchReport, reportFile, failedFile, writes, loaded,
          signer, senderAddress,
          xcall, apiCallCount, roundTrips, justReset,
          filter, fpc, fetch, kept, metadataMap, tokenMetadataCache, parsed,
          filterResult, filterError,
          method, page, requests, pages, allRows, gpc, lookup, issued, succeeded,
          carray, csize, ci, chunks, cpc>>

Min(a, b) == IF a <= b THEN a ELSE b

SeqToSet(s) == {s[i] : i \in 1..Len(s)}

\* =========================================================== RequestQueue

\* The fields of a RequestQueue together with the promises it owes.
Cur ==
    [queue |-> queue, activeRequests |-> activeRequests, intervalId |-> intervalId,
     status |-> status, outcome |-> outcome, settles |-> settles,
     dispatched |-> dispatched]

Become(s) ==
    /\ queue' = s.queue
    /\ activeRequests' = s.activeRequests
    /\ intervalId' = s.intervalId
    /\ status' = s.status
    /\ outcome' = s.outcome
    /\ settles' = s.settles
    /\ dispatched' = s.dispatched

\* request.resolve(..) / request.reject(..): a promise keeps its first settlement.
settle(s, r, how) ==
    [s EXCEPT !.status[r] = "settled",
              !.outcome[r] = IF s.settles[r] = 0 THEN how ELSE @,
              !.settles[r] = @ + 1]

\* ---- faulty variant of enqueue: starts the operation itself when a slot is free
enqueue_eager(s, r) ==
    LET pushed == [s EXCEPT !.queue = Append(@, r), !.status[r] = "pending"]
        request == Head(pushed.queue)
    IN IF pushed.activeRequests >= maxConcurrent
       THEN pushed
       ELSE [pushed EXCEPT !.queue = Tail(@), !.activeRequests = @ + 1,
                           !.status[request] = "running",
                           !.dispatched = Append(@, request)]

\* enqueue: the promise executor pushes the request; nothing else happens.
enqueue(s, r) ==
    [s EXCEPT !.queue = Append(@, r), !.status[r] = "pending"]

\* ---- faulty variants of processQueue: the limit test off by one; LIFO
processQueue_offByOne(s, throws) ==
    IF s.activeRequests > maxConcurrent \/ Len(s.queue) = 0
    THEN s
    ELSE LET request == Head(s.queue)
         IN [s EXCEPT !.queue = Tail(@), !.activeRequests = @ + 1,
                      !.status[request] = "running",
                      !.dispatched = Append(@, request)]

processQueue_lifo(s, throws) ==
    IF s.activeRequests >= maxConcurrent \/ Len(s.queue) = 0
    THEN s
    ELSE LET request == s.queue[Len(s.queue)]
         IN [s EXCEPT !.queue = SubSeq(@, 1, Len(@) - 1), !.activeRequests = @ + 1,
                      !.status[request] = "running",
                      !.dispatched = Append(@, request)]

\* processQueue up to its first suspension. `throws` says whether request.fn()
\* throws before returning a promise: then catch and finally run in the same
\* callback.
processQueue(s, throws) ==
    IF s.activeRequests >= maxConcurrent \/ Len(s.queue) = 0
    THEN s
    ELSE LET request == Head(s.queue)
             started == [s EXCEPT !.queue = Tail(@), !.activeRequests = @ + 1,
                                  !.status[request] = "running",
                                  !.dispatched = Append(@, request)]
         IN IF throws
            THEN [settle(started, request, "error") EXCEPT !.activeRequests = @ - 1]
            ELSE started

\* ---- faulty variant of complete: the finally block is missing
complete_noFinally(s, r, ok) ==
    settle(s, r, IF ok THEN "value" ELSE "error")

\* processQueue after `await request.fn()`: resolve or reject, then finally.
complete(s, r, ok) ==
    [settle(s, r, IF ok THEN "value" ELSE "error") EXCEPT !.activeRequests = @ - 1]

RECURSIVE rejectAll(_, _)
rejectAll(s, q) ==
    IF q = <<>> THEN s ELSE rejectAll(settle(s, Head(q), "cleared"), Tail(q))

\* ---- faulty variants of clear: the queue is kept; the counter is reset
clear_keepsQueue(s) ==
    rejectAll(s, s.queue)

clear_resetsActive(s) ==
    [rejectAll(s, s.queue) EXCEPT !.queue = <<>>, !.activeRequests = 0]

\* clear: queue.forEach(reject 'Queue cleared'); queue = [].
clear(s) ==
    [rejectAll(s, s.queue) EXCEPT !.queue = <<>>]

\* ---- faulty variant of destroy: the timer keeps running
destroy_keepsTimer(s) ==
    clear(s)

\* destroy: clearInterval when the timer is set, then clear().
destroy(s) ==
    clear(IF s.intervalId THEN [s EXCEPT !.intervalId = FALSE] ELSE s)

\* ---- faulty variant of checkCompletion: looks at the queue only
checkCompletion_queueOnly(s) ==
    Len(s.queue) = 0

\* waitForCompletion's checkCompletion condition.
checkCompletion(s) ==
    Len(s.queue) = 0 /\ s.activeRequests = 0

\* setInterval period in ms: 1000 / rateLimitPerSecond.
startProcessing == 1000 \div RateLimitPerSecond

\* The constructor: empty queue, no active request, timer started.
QInit ==
    /\ maxConcurrent \in 1..MaxConc
    /\ queue = <<>>
    /\ activeRequests = 0
    /\ intervalId = TRUE
    /\ enqueued = 0
    /\ status = [r \in Reqs |-> "none"]
    /\ outcome = [r \in Reqs |-> "none"]
    /\ settles = [r \in Reqs |-> 0]
    /\ dispatched = <<>>
    /\ ticks = 0
    /\ destroyed = FALSE
    /\ waiting = [w \in Waiters |-> "none"]

Enqueue ==
    /\ enqueued < MaxReq
    /\ enqueued' = enqueued + 1
    /\ Become(enqueue(Cur, enqueued + 1))
    /\ UNCHANGED <<maxConcurrent, ticks, destroyed, waiting>>

\* One firing of the interval timer, counted by the tick observer.
Tick ==
    /\ intervalId
    /\ ticks < MaxTicks
    /\ ticks' = ticks + 1
    /\ \E throws \in BOOLEAN : Become(processQueue(Cur, throws))
    /\ UNCHANGED <<maxConcurrent, enqueued, destroyed, waiting>>

\* The same firing with the tick observer switched off (for liveness).
TickL ==
    /\ intervalId
    /\ \E throws \in BOOLEAN : Become(processQueue(Cur, throws))
    /\ UNCHANGED <<maxConcurrent, enqueued, ticks, destroyed, waiting>>

Complete(r) ==
    /\ status[r] = "running"
    /\ \E ok \in BOOLEAN : Become(complete(Cur, r, ok))
    /\ UNCHANGED <<maxConcurrent, enqueued, ticks, destroyed, waiting>>

Clear ==
    /\ Become(clear(Cur))
    /\ UNCHANGED <<maxConcurrent, enqueued, ticks, destroyed, waiting>>

Destroy ==
    /\ Become(destroy(Cur))
    /\ destroyed' = TRUE
    /\ UNCHANGED <<maxConcurrent, enqueued, ticks, waiting>>

\* waitForCompletion: the first checkCompletion runs inside the call.
waitForCompletion(w) ==
    /\ waiting[w] = "none"
    /\ waiting' = [waiting EXCEPT ![w] =
                     IF checkCompletion(Cur) THEN "resolved" ELSE "polling"]
    /\ UNCHANGED <<maxConcurrent, queue, activeRequests, intervalId, enqueued,
                   status, outcome, settles, dispatched, ticks, destroyed>>

\* setTimeout(checkCompletion, 100) fires.
Poll(w) ==
    /\ waiting[w] = "polling"
    /\ waiting' = [waiting EXCEPT ![w] =
                     IF checkCompletion(Cur) THEN "resolved" ELSE "polling"]
    /\ UNCHANGED <<maxConcurrent, queue, activeRequests, intervalId, enqueued,
                   status, outcome, settles, dispatched, ticks, destroyed>>

\* ============================================================= RetryUtil

Always == MaxRetriesBound + 1
Plans == 0..Always

\* Error messages an operation fails with.
Errors == {"Network timeout", "Invalid API key"}

\* isRetryableError on these messages (/timeout/i and /network/i match the first).
isRetryableError(e) == e \in {"Network timeout"}

RECURSIVE pow(_, _)
pow(b, e) == IF e = 0 THEN 1 ELSE b * pow(b, e - 1)

\* ---- faulty variant of calculateDelay: exponent attempt instead of attempt - 1
calculateDelay_exponent(a) ==
    Min(rconfig.baseDelayMs * pow(rconfig.backoffMultiplier, a), rconfig.maxDelayMs)

calculateDelay(a) ==
    Min(rconfig.baseDelayMs * pow(rconfig.backoffMultiplier, a - 1), rconfig.maxDelayMs)

\* ---- faulty variant of exhausted: an error isRetryableError rejects ends the retries
exhausted_classified(a, e) ==
    a = rconfig.maxRetries \/ ~isRetryableError(e)

\* The catch block's test `attempt === this.config.maxRetries`; the error
\* caught is not looked at.
exhausted(a, e) ==
    a = rconfig.maxRetries

NotRaised == [name |-> "none", originalError |-> "none", attempt |-> 0, maxRetries |-> 0]

RetryIdle ==
    /\ rconfig = [maxRetries |-> 3, baseDelayMs |-> 1000, maxDelayMs |-> 10000,
                  backoffMultiplier |-> 2]
    /\ plan = 0
    /\ rpc = "idle"
    /\ attempt = 1
    /\ calls = 0
    /\ lastError = "undefined"
    /\ delays = <<>>
    /\ raised = NotRaised

\* executeWithRetry is entered: let lastError; attempt = 1.
RInit ==
    /\ rconfig \in [maxRetries : 0..MaxRetriesBound, baseDelayMs : {100, 1000},
                    maxDelayMs : {150, 10000}, backoffMultiplier : {1, 2}]
    /\ plan \in Plans
    /\ rpc = "loop"
    /\ attempt = 1
    /\ calls = 0
    /\ lastError = "undefined"
    /\ delays = <<>>
    /\ raised = NotRaised

\* One pass of the loop body with fn() resolving: return await fn().
AttemptSucceeds ==
    /\ rpc = "loop"
    /\ attempt <= rconfig.maxRetries
    /\ calls >= plan
    /\ calls' = calls + 1
    /\ rpc' = "returned"
    /\ UNCHANGED <<rconfig, plan, attempt, lastError, delays, raised>>

\* One pass of the loop body with fn() rejecting: the catch block up to its
\* throw or its await of sleep.
AttemptFails ==
    /\ rpc = "loop"
    /\ attempt <= rconfig.maxRetries
    /\ calls < plan
    /\ calls' = calls + 1
    /\ \E e \in Errors :
         /\ lastError' = e
         /\ IF exhausted(attempt, e)
            THEN /\ rpc' = "threw"
                 /\ raised' = [name |-> "RetryError", originalError |-> e,
                               attempt |-> attempt,
                               maxRetries |-> rconfig.maxRetries]
                 /\ UNCHANGED delays
            ELSE /\ rpc' = "sleep"
                 /\ delays' = Append(delays, calculateDelay(attempt))
                 /\ UNCHANGED raised
    /\ UNCHANGED <<rconfig, plan, attempt>>

\* sleep(delay) resolves: attempt++.
Wake ==
    /\ rpc = "sleep"
    /\ attempt' = attempt + 1
    /\ rpc' = "loop"
    /\ UNCHANGED <<rconfig, plan, calls, lastError, delays, raised>>

\* The loop condition fails: throw lastError!.
LoopExit ==
    /\ rpc = "loop"
    /\ attempt > rconfig.maxRetries
    /\ rpc' = "threw"
    /\ raised' = [name |-> lastError, originalError |-> "none", attempt |-> 0,
                  maxRetries |-> 0]
    /\ UNCHANGED <<rconfig, plan, attempt, calls, lastError, delays>>

\* ======================================================== BatchTokenSender

\* ---- the recipient lists a run is given
\* Addresses are written in three forms: the checksummed form of account i,
\* its all-lowercase form, and a string that is no address.
Checksummed(i) == "0xA" \o ToString(i)
Lowercase(i) == "0xa" \o ToString(i)
Malformed == "0xZZ"

\* ethers.isAddress: the lowercase and the checksummed form are addresses.
isAddress(a) == \E i \in 1..MaxRecipients : a \in {Checksummed(i), Lowercase(i)}

\* ethers.getAddress: the checksummed form of an address.
getAddress(a) ==
    IF \E i \in 1..MaxRecipients : a = Lowercase(i)
    THEN Checksummed(CHOOSE i \in 1..MaxRecipients : a = Lowercase(i))
    ELSE a

\* Amounts are decimal strings of whole tokens; the i-th recipient of a list
\* asks for AmountOf(i).  The first two add up to 2^MantissaBits + 1, the
\* smallest sum a float cannot hold.
AmountOf(i) ==
    IF i = 1 THEN pow(2, MantissaBits - 1)
    ELSE IF i = 2 THEN pow(2, MantissaBits - 1) + 1
    ELSE 3

MaxAmount == pow(2, MantissaBits - 1) + 1

Numerals == {ToString(k) : k \in 0..MaxAmount}
NumeralValue(s) == CHOOSE k \in 0..MaxAmount : s = ToString(k)

\* Strings that are no amount: not positive, not a number, a number followed
\* by other characters.
BadAmounts == {"0", "abc", "1x"}

Clean(n) == [i \in 1..n |-> [address |-> Checksummed(i), amount |-> ToString(AmountOf(i))]]

\* The clean list with one recipient changed.
Defects == {"lowercase", "duplicate", "malformed"} \cup BadAmounts
Defective(n, i, d) ==
    [Clean(n) EXCEPT ![i] =
        IF d = "lowercase" THEN [@ EXCEPT !.address = Lowercase(i)]
        ELSE IF d = "duplicate" THEN [@ EXCEPT !.address = Lowercase(IF i = 1 THEN n ELSE 1)]
        ELSE IF d = "malformed" THEN [@ EXCEPT !.address = Malformed]
        ELSE [@ EXCEPT !.amount = d]]

RecipientLists ==
    {Clean(n) : n \in 0..MaxRecipients}
        \cup UNION {{Defective(n, i, d) : i \in 1..n, d \in Defects} :
                       n \in 1..MaxRecipients}

\* ---- numbers
\* parseFloat: the leading decimal numeral of the string, or NaN.
parseFloat(s) ==
    IF s \in Numerals THEN [nan |-> FALSE, val |-> NumeralValue(s)]
    ELSE IF s = "1x" THEN [nan |-> FALSE, val |-> 1]
    ELSE [nan |-> TRUE, val |-> 0]

\* ethers.parseUnits accepts decimal numerals only.
parseUnitsThrows(s) == s \notin Numerals

\* The spacing of the floats around x.
RECURSIVE ulp(_)
ulp(x) == IF x < pow(2, MantissaBits) THEN 1 ELSE 2 * ulp(x \div 2)

\* The float nearest to x, ties to the even mantissa: the value of a
\* floating-point operation whose exact result is x.
fround(x) ==
    LET u == ulp(x)
        q == x \div u
        r == x % u
    IN  IF 2 * r > u \/ (2 * r = u /\ q % 2 = 1) THEN (q + 1) * u ELSE q * u

\* totalAmount += amountNum over the list, in floats.
RECURSIVE floatSum(_)
floatSum(rs) ==
    IF rs = <<>> THEN 0
    ELSE fround(floatSum(SubSeq(rs, 1, Len(rs) - 1)) + parseFloat(rs[Len(rs)].amount).val)

\* The sum of the requested amounts.
RECURSIVE exactSum(_)
exactSum(rs) ==
    IF rs = <<>> THEN 0
    ELSE exactSum(SubSeq(rs, 1, Len(rs) - 1)) + parseFloat(rs[Len(rs)].amount).val

invalidAmount(s) == parseFloat(s).nan \/ parseFloat(s).val <= 0

\* ---- validateRecipients
\* The list validateRecipients returns: addresses checksummed, amounts kept.
validated(rs) ==
    [i \in 1..Len(rs) |-> [address |-> getAddress(rs[i].address), amount |-> rs[i].amount]]

\* validateRecipients throws: an address that is none, an address seen
\* before (after checksumming), an amount parseFloat finds NaN or <= 0.
validateRecipientsThrows(rs) ==
    \E i \in 1..Len(rs) :
        \/ ~isAddress(rs[i].address)
        \/ \E j \in 1..(i - 1) : getAddress(rs[j].address) = getAddress(rs[i].address)
        \/ invalidAmount(rs[i].amount)

\* ---- checkBalances
\* estimateGasForBatch throws on its own: no first recipient to sample, or a
\* sample whose amount parseUnits rejects or whose address the gas
\* estimation cannot resolve.
estimateGasForBatchThrows(rs) ==
    \/ rs = <<>>
    \/ invalidAmount(rs[1].amount)
    \/ parseUnitsThrows(rs[1].amount)
    \/ ~isAddress(rs[1].address)

\* checkBalances throws on its own (the provider answering every call).
checkBalancesThrows(rs) ==
    \/ \E i \in 1..Len(rs) : invalidAmount(rs[i].amount)
    \/ estimateGasForBatchThrows(rs)

\* The estimated gas cost of the whole list: one unit of the native currency
\* for each transfer.
gasCostOf(rs) == Len(rs)

\* The flags checkBalances returns for a wallet holding token and matic.
sufficientToken(rs, token) == token >= floatSum(rs)
sufficientMatic(rs, matic) == fround(matic) >= fround(gasCostOf(rs))

\* What the wallet really lacks.
NothingShort == [token |-> FALSE, matic |-> FALSE]
shortOf(rs, token, matic) ==
    [token |-> token < exactSum(rs), matic |-> matic < gasCostOf(rs)]

\* The balances a run meets: just enough, or one unit less.
Around(n) == {k \in {n - 1, n} : k >= 0}

\* ---- executeTransfer
\* The hash of the k-th transaction the chain accepts, and the placeholder
\* '0x' + '0'.repeat(64) of a dry run.
TxHash(k) == "0xtx" \o ToString(k)
ZeroHash == "0x0000000000000000000000000000000000000000000000000000000000000000"

\* What a provider call fails with.
ProviderErrors == {"Too many requests", "execution reverted"}

\* errorMessage.includes('rate limit') || errorMessage.includes('Too many requests')
mentionsRateLimit(msg) == msg \in {"Too many requests", "rate limit exceeded"}

\* The environment of one executeTransfer call: the provider call that
\* fails, if any, and what it fails with.
EstimationCalls == {"estimateGas", "getFeeData", "populateTransaction"}
ChainBehaviours ==
    {[failAt |-> "none", error |-> "none"]}
        \cup [failAt : EstimationCalls \cup {"sendTransaction", "wait"}, error : ProviderErrors]

failedResult(rcp, e, n) ==
    [recipient |-> rcp.address, amount |-> rcp.amount, status |-> "failed",
     txHash |-> "undefined", blockNumber |-> "undefined", gasCostMatic |-> "undefined",
     error |-> e, attempts |-> n]

successResult(rcp, h, b) ==
    [recipient |-> rcp.address, amount |-> rcp.amount, status |-> "success",
     txHash |-> h, blockNumber |-> b, gasCostMatic |-> "1", error |-> "undefined",
     attempts |-> 0]

\* What one call of executeTransfer did: whether it threw, whether its
\* estimation steps all succeeded, whether its transaction was broadcast,
\* the error of the step that failed ("none" if none did), and the
\* TransferResult it returned.
callOutcome(threw, estimated, broadcast, failure, result) ==
    [threw |-> threw, estimated |-> estimated, broadcast |-> broadcast,
     failure |-> failure, result |-> result]

ParseError == "invalid FixedNumber string value"
ResolveError == "unconfigured name"

\* ---- faulty variant of executeTransfer: a dry run broadcasts like a live run
executeTransfer_dryBroadcasts(rcp, env, k) ==
    IF parseUnitsThrows(rcp.amount)
    THEN callOutcome(TRUE, FALSE, FALSE, ParseError, failedResult(rcp, ParseError, 0))
    ELSE IF ~isAddress(rcp.address)
    THEN callOutcome(FALSE, FALSE, FALSE, ResolveError, failedResult(rcp, ResolveError, 0))
    ELSE IF env.failAt \in EstimationCalls
    THEN callOutcome(FALSE, FALSE, FALSE, env.error, failedResult(rcp, env.error, 0))
    ELSE IF env.failAt = "sendTransaction"
    THEN callOutcome(FALSE, TRUE, FALSE, env.error, failedResult(rcp, env.error, 0))
    ELSE IF env.failAt = "wait"
    THEN callOutcome(FALSE, TRUE, TRUE, env.error,
                 IF mentionsRateLimit(env.error)
                 THEN successResult(rcp, TxHash(k), "undefined")
                 ELSE failedResult(rcp, env.error, 0))
    ELSE callOutcome(FALSE, TRUE, TRUE, "none", successResult(rcp, TxHash(k), "mined"))

\* ---- faulty variant of executeTransfer: a failed confirmation wait is always a failure
executeTransfer_waitFails(rcp, env, k) ==
    IF parseUnitsThrows(rcp.amount)
    THEN callOutcome(TRUE, FALSE, FALSE, ParseError, failedResult(rcp, ParseError, 0))
    ELSE IF ~isAddress(rcp.address)
    THEN callOutcome(FALSE, FALSE, FALSE, ResolveError, failedResult(rcp, ResolveError, 0))
    ELSE IF env.failAt \in EstimationCalls
    THEN callOutcome(FALSE, FALSE, FALSE, env.error, failedResult(rcp, env.error, 0))
    ELSE IF bconfig.dryRun
    THEN callOutcome(FALSE, TRUE, FALSE, "none", successResult(rcp, ZeroHash, "undefined"))
    ELSE IF env.failAt = "sendTransaction"
    THEN callOutcome(FALSE, TRUE, FALSE, env.error, failedResult(rcp, env.error, 0))
    ELSE IF env.failAt = "wait"
    THEN callOutcome(FALSE, TRUE, TRUE, env.error, failedResult(rcp, env.error, 0))
    ELSE callOutcome(FALSE, TRUE, TRUE, "none", successResult(rcp, TxHash(k), "mined"))

\* ---- faulty variant of executeTransfer: a failed confirmation wait is thrown
executeTransfer_waitThrows(rcp, env, k) ==
    IF parseUnitsThrows(rcp.amount)
    THEN callOutcome(TRUE, FALSE, FALSE, ParseError, failedResult(rcp, ParseError, 0))
    ELSE IF ~isAddress(rcp.address)
    THEN callOutcome(FALSE, FALSE, FALSE, ResolveError, failedResult(rcp, ResolveError, 0))
    ELSE IF env.failAt \in EstimationCalls
    THEN callOutcome(FALSE, FALSE, FALSE, env.error, failedResult(rcp, env.error, 0))
    ELSE IF bconfig.dryRun
    THEN callOutcome(FALSE, TRUE, FALSE, "none", successResult(rcp, ZeroHash, "undefined"))
    ELSE IF env.failAt = "sendTransaction"
    THEN callOutcome(FALSE, TRUE, FALSE, env.error, failedResult(rcp, env.error, 0))
    ELSE IF env.failAt = "wait"
    THEN IF mentionsRateLimit(env.error)
         THEN callOutcome(FALSE, TRUE, TRUE, env.error,
                          successResult(rcp, TxHash(k), "undefined"))
         ELSE callOutcome(TRUE, TRUE, TRUE, env.error, failedResult(rcp, env.error, 0))
    ELSE callOutcome(FALSE, TRUE, TRUE, "none", successResult(rcp, TxHash(k), "mined"))

\* One call of executeTransfer for rcp when the chain has accepted k - 1
\* transactions.  parseUnits (outside the try) throws; every failure inside
\* the try is returned as a failed TransferResult.  The field attempts is 0
\* where the program leaves it out.
executeTransfer(rcp, env, k) ==
    IF parseUnitsThrows(rcp.amount)
    THEN callOutcome(TRUE, FALSE, FALSE, ParseError, failedResult(rcp, ParseError, 0))
    ELSE IF ~isAddress(rcp.address)
    THEN callOutcome(FALSE, FALSE, FALSE, ResolveError, failedResult(rcp, ResolveError, 0))
    ELSE IF env.failAt \in EstimationCalls
    THEN callOutcome(FALSE, FALSE, FALSE, env.error, failedResult(rcp, env.error, 0))
    ELSE IF bconfig.dryRun
    THEN callOutcome(FALSE, TRUE, FALSE, "none", successResult(rcp, ZeroHash, "undefined"))
    ELSE IF env.failAt = "sendTransaction"
    THEN callOutcome(FALSE, TRUE, FALSE, env.error, failedResult(rcp, env.error, 0))
    ELSE IF env.failAt = "wait"
    THEN callOutcome(FALSE, TRUE, TRUE, env.error,
                 IF mentionsRateLimit(env.error)
                 THEN successResult(rcp, TxHash(k), "undefined")
                 ELSE failedResult(rcp, env.error, 0))
    ELSE callOutcome(FALSE, TRUE, TRUE, "none", successResult(rcp, TxHash(k), "mined"))

\* ---- executeBatchTransfers
\* The delays of the batch loop and of the retry policy it builds.
RateLimitCooldownMs == 60000
TransferDelayMs == 3000
BatchDelayMs == 15000
RetryMaxDelayMs == 10000
RetryDelayMs == 2000

RECURSIVE chunkArray(_, _)
chunkArray(array, size) ==
    IF array = <<>> THEN <<>>
    ELSE <<SubSeq(array, 1, Min(size, Len(array)))>>
             \o chunkArray(SubSeq(array, Min(size, Len(array)) + 1, Len(array)), size)

batches == chunkArray(work, bconfig.batchSize)
\* The loop variables batchIndex and i (counted from 0) and the recipient
\* they stand at.
batchIndex == (nextIdx - 1) \div bconfig.batchSize
posInBatch == (nextIdx - 1) % bconfig.batchSize
batch == batches[batchIndex + 1]
recipient == batch[posInBatch + 1]

retryConfig ==
    [maxRetries |-> bconfig.maxRetries, baseDelayMs |-> bconfig.retryDelayMs,
     maxDelayMs |-> RetryMaxDelayMs, backoffMultiplier |-> 2]

\* new RetryUtil(retryConfig).executeWithRetry(...) is entered.
EnterRetry ==
    /\ rconfig' = retryConfig
    /\ rpc' = "loop"
    /\ attempt' = 1
    /\ calls' = 0
    /\ lastError' = "undefined"
    /\ delays' = <<>>
    /\ raised' = NotRaised
    /\ UNCHANGED plan

\* ---- faulty variant of nextNonce: every transfer consumes a nonce
nextNonce_always(nonce, r) == nonce + 1

\* if (transferSuccessful) currentNonce++
nextNonce(nonce, r) == IF r.status = "success" THEN nonce + 1 ELSE nonce

\* ---- faulty variant of nextStep: a failed transfer ends the run
nextStep_stopOnFailure(r) ==
    IF r.status = "failed" THEN "returned"
    ELSE IF posInBatch < Len(batch) - 1 THEN "transfer"
    ELSE IF batchIndex < Len(batches) - 1 THEN "batch"
    ELSE "returned"

\* Where the loops stand after the outcome r was pushed: the next recipient
\* of the batch, the next batch, or the return.
nextStep(r) ==
    IF posInBatch < Len(batch) - 1 THEN "transfer"
    ELSE IF batchIndex < Len(batches) - 1 THEN "batch"
    ELSE "returned"

\* The delays after an outcome was pushed.
loopDelays ==
    (IF ~bconfig.dryRun /\ posInBatch < Len(batch) - 1
     THEN <<[ms |-> TransferDelayMs, after |-> nextIdx]>> ELSE <<>>)
        \o (IF posInBatch = Len(batch) - 1 /\ ~bconfig.dryRun /\ batchIndex < Len(batches) - 1
            THEN <<[ms |-> BatchDelayMs, after |-> nextIdx]>> ELSE <<>>)

\* ---- faulty variant of record: the loop moves on before the outcome is pushed
record_notPushed(r, cooldown) ==
    /\ currentNonce' = nextNonce(currentNonce, r)
    /\ results' = results
    /\ pauses' = pauses \o cooldown \o loopDelays
    /\ nextIdx' = nextIdx + 1
    /\ bpc' = nextStep(r)

\* The rest of the loop body once the outcome r is known: the nonce, the
\* push, the delays, and the step to the next recipient.
record(r, cooldown) ==
    /\ currentNonce' = nextNonce(currentNonce, r)
    /\ results' = Append(results, r)
    /\ pauses' = pauses \o cooldown \o loopDelays
    /\ nextIdx' = nextIdx + 1
    /\ bpc' = nextStep(r)

\* The entry of the log for a call of executeTransfer that did out.
called(out) ==
    [idx |-> nextIdx, nonce |-> currentNonce, estimated |-> out.estimated,
     broadcast |-> out.broadcast, failure |-> out.failure]

\* The catch branch of the loop body for the error message msg.
caught(msg) ==
    record(failedResult(recipient, msg, retryConfig.maxRetries + 1),
           IF mentionsRateLimit(msg)
           THEN <<[ms |-> RateLimitCooldownMs, after |-> nextIdx]>> ELSE <<>>)

\* The message of the RetryError executeWithRetry throws.
retryErrorMessage(n, context) ==
    "Failed after " \o ToString(n) \o " attempts (" \o context \o ")"

\* ---- the report
NoReport ==
    [generated |-> FALSE, totalRecipients |-> 0, successful |-> 0, failed |-> 0,
     totalAmountSent |-> "0", totalGasCostMatic |-> "0", transfers |-> <<>>,
     failedList |-> <<>>]

\* results.filter(r => r.status === st)
filterStatus(rs, st) == SelectSeq(rs, LAMBDA r : r.status = st)

\* ss.reduce((sum, s) => sum + parseFloat(s), 0), in floats.
RECURSIVE reduceSum(_)
reduceSum(ss) ==
    IF ss = <<>> THEN 0
    ELSE fround(reduceSum(SubSeq(ss, 1, Len(ss) - 1)) + parseFloat(ss[Len(ss)]).val)

\* ---- faulty variant of generateReport: the totals run over every outcome
generateReport_allOutcomes(rs) ==
    [generated |-> TRUE, totalRecipients |-> Len(rs),
     successful |-> Len(filterStatus(rs, "success")),
     failed |-> Len(filterStatus(rs, "failed")),
     totalAmountSent |-> ToString(reduceSum([i \in 1..Len(rs) |-> rs[i].amount])),
     totalGasCostMatic |->
         ToString(reduceSum([i \in 1..Len(rs) |->
             IF rs[i].gasCostMatic = "undefined" THEN "0" ELSE rs[i].gasCostMatic])),
     transfers |-> rs,
     failedList |-> filterStatus(rs, "failed")]

\* generateReport of BatchTokenSender and of BatchReportManager: the counts,
\* the totals over the successful outcomes, the outcomes and the failed ones.
\* (summary.failed is the field failed, the list failed is failedList.)
generateReport(rs) ==
    LET successful == filterStatus(rs, "success")
    IN  [generated |-> TRUE, totalRecipients |-> Len(rs),
         successful |-> Len(successful),
         failed |-> Len(filterStatus(rs, "failed")),
         totalAmountSent |->
             ToString(reduceSum([i \in 1..Len(successful) |-> successful[i].amount])),
         totalGasCostMatic |->
             ToString(reduceSum([i \in 1..Len(successful) |->
                 IF successful[i].gasCostMatic = "undefined"
                 THEN "0" ELSE successful[i].gasCostMatic])),
         transfers |-> rs,
         failedList |-> filterStatus(rs, "failed")]

\* ---- the run
BatchIdle ==
    /\ bconfig = [dryRun |-> FALSE, batchSize |-> 1, maxRetries |-> 3,
                  retryDelayMs |-> RetryDelayMs]
    /\ entry = "executeBatch"
    /\ recipients = <<>>
    /\ work = <<>>
    /\ short = NothingShort
    /\ bpc = "idle"
    /\ nextIdx = 1
    /\ currentNonce = 0
    /\ results = <<>>
    /\ fetched = <<>>
    /\ transferLog = <<>>
    /\ sent = <<>>
    /\ pauses = <<>>
    /\ received = <<>>
    /\ report = NoReport

\* A BatchTokenSender is constructed and a run is about to be started on a
\* recipient list.
BInit ==
    /\ bconfig \in [dryRun : BOOLEAN, batchSize : 1..MaxBatchSize,
                    maxRetries : {0, MaxRetriesBound}, retryDelayMs : {RetryDelayMs}]
    /\ entry \in {"executeBatch", "run"}
    /\ recipients \in RecipientLists
    /\ work = <<>>
    /\ short = NothingShort
    /\ bpc = "start"
    /\ nextIdx = 1
    /\ currentNonce = 0
    /\ results = <<>>
    /\ fetched = <<>>
    /\ transferLog = <<>>
    /\ sent = <<>>
    /\ pauses = <<>>
    /\ received = <<>>
    /\ report = NoReport

\* The preflight of a run on the list rs (validated or as given): rejected
\* when a provider call fails, when checkBalances throws or reports a balance
\* as insufficient, or when the user declines; otherwise
\* executeBatchTransfers(rs) is entered.
preflight(rs, throws, token, matic, confirmed) ==
    IF throws \/ checkBalancesThrows(rs)
    THEN /\ bpc' = "rejected"
         /\ UNCHANGED <<work, short>>
    ELSE /\ short' = shortOf(rs, token, matic)
         /\ IF sufficientToken(rs, token) /\ sufficientMatic(rs, matic) /\ confirmed
            THEN bpc' = "batch" /\ work' = rs
            ELSE bpc' = "rejected" /\ UNCHANGED work

\* executeBatch up to its call of executeBatchTransfers.
executeBatch ==
    /\ bpc = "start"
    /\ entry = "executeBatch"
    /\ \E providerOk \in BOOLEAN :
       \E token \in Around(exactSum(recipients)), matic \in Around(gasCostOf(recipients)) :
            preflight(validated(recipients),
                      validateRecipientsThrows(recipients) \/ ~providerOk, token, matic, TRUE)
    /\ UNCHANGED <<bconfig, entry, recipients, nextIdx, currentNonce, results,
                   fetched, transferLog, sent, pauses, received, report>>
    /\ UNCHANGED rvars

\* BatchSenderCLI.run up to its call of executeBatchTransfers: loadRecipients
\* hands the list on as read; the user is asked to confirm a live run.
run ==
    /\ bpc = "start"
    /\ entry = "run"
    /\ \E providerOk \in BOOLEAN, confirmed \in {c \in BOOLEAN : ~bconfig.dryRun \/ c} :
       \E token \in Around(exactSum(recipients)), matic \in Around(gasCostOf(recipients)) :
            preflight(recipients, ~providerOk, token, matic, confirmed)
    /\ UNCHANGED <<bconfig, entry, recipients, nextIdx, currentNonce, results,
                   fetched, transferLog, sent, pauses, received, report>>
    /\ UNCHANGED rvars

\* The nonce read at the start of a batch: the number of transactions the
\* chain has accepted from the sender, or the failure of the call, which
\* leaves executeBatchTransfers and loses its local results.
getTransactionCount ==
    /\ bpc = "batch"
    /\ \E ok \in BOOLEAN :
         IF ok
         THEN /\ currentNonce' = Len(sent)
              /\ fetched' = Append(fetched, Len(sent))
              /\ bpc' = "transfer"
         ELSE /\ bpc' = "aborted"
              /\ UNCHANGED <<currentNonce, fetched>>
    /\ UNCHANGED <<bconfig, entry, recipients, work, short, nextIdx, results,
                   transferLog, sent, pauses, received, report>>
    /\ UNCHANGED rvars

\* The loop body is entered for the next recipient: a RetryUtil is built
\* and executeWithRetry is called.
StartTransfer ==
    /\ bpc = "transfer"
    /\ rpc \in {"idle", "returned", "threw"}
    /\ EnterRetry
    /\ UNCHANGED bvars

\* One pass of the retry loop in which executeTransfer returns an outcome:
\* executeWithRetry returns it and the loop body records it.
TransferReturns ==
    /\ bpc = "transfer"
    /\ rpc = "loop"
    /\ attempt <= rconfig.maxRetries
    /\ \E env \in ChainBehaviours :
         LET out == executeTransfer(recipient, env, Len(sent) + 1)
         IN  /\ ~out.threw
             /\ sent' = IF out.broadcast
                        THEN Append(sent, [idx |-> nextIdx, nonce |-> currentNonce])
                        ELSE sent
             /\ record(out.result, <<>>)
             /\ transferLog' = Append(transferLog, called(out))
    /\ calls' = calls + 1
    /\ rpc' = "returned"
    /\ UNCHANGED <<rconfig, plan, attempt, lastError, delays, raised>>
    /\ UNCHANGED <<bconfig, entry, recipients, work, short, fetched, received, report>>

\* One pass of the retry loop in which executeTransfer throws: the catch
\* block of executeWithRetry sleeps, or throws a RetryError that the catch
\* branch of the loop body turns into a failed outcome.
TransferThrows ==
    /\ bpc = "transfer"
    /\ rpc = "loop"
    /\ attempt <= rconfig.maxRetries
    /\ \E env \in ChainBehaviours :
         LET out == executeTransfer(recipient, env, Len(sent) + 1)
         IN  /\ out.threw
             /\ lastError' = out.failure
             /\ IF exhausted(attempt, out.failure)
                THEN /\ rpc' = "threw"
                     /\ raised' = [name |-> "RetryError",
                                   originalError |-> out.failure,
                                   attempt |-> attempt,
                                   maxRetries |-> rconfig.maxRetries]
                     /\ caught(retryErrorMessage(rconfig.maxRetries,
                                                 "transfer to " \o recipient.address))
                     /\ UNCHANGED delays
                ELSE /\ rpc' = "sleep"
                     /\ delays' = Append(delays, calculateDelay(attempt))
                     /\ UNCHANGED <<raised, currentNonce, results, pauses, nextIdx, bpc>>
             /\ transferLog' = Append(transferLog, called(out))
    /\ calls' = calls + 1
    /\ UNCHANGED <<rconfig, plan, attempt>>
    /\ UNCHANGED <<bconfig, entry, recipients, work, short, fetched, sent, received, report>>

\* executeWithRetry with maxRetries = 0: the loop body is never entered,
\* `throw lastError!` throws undefined, and the catch branch of the batch
\* loop records String(undefined).
NoAttempt ==
    /\ bpc = "transfer"
    /\ rpc = "loop"
    /\ attempt > rconfig.maxRetries
    /\ rpc' = "threw"
    /\ raised' = [name |-> lastError, originalError |-> "none", attempt |-> 0,
                  maxRetries |-> 0]
    /\ caught(lastError)
    /\ UNCHANGED <<rconfig, plan, attempt, calls, lastError, delays>>
    /\ UNCHANGED <<bconfig, entry, recipients, work, short, fetched, transferLog,
                   sent, received, report>>

\* executeBatchTransfers returned: executeBatch generates its report; the
\* CLI run assigns the list to its own results and generates the report.
Report ==
    /\ bpc = "returned"
    /\ received' = results
    /\ report' = generateReport(results)
    /\ bpc' = "done"
    /\ UNCHANGED <<bconfig, entry, recipients, work, short, nextIdx, currentNonce,
                   results, fetched, transferLog, sent, pauses>>
    /\ UNCHANGED rvars

\* executeBatchTransfers threw.  executeBatch rethrows; the CLI run finds its
\* own results still empty and exits.
Abort ==
    /\ bpc = "aborted"
    /\ bpc' = "failed"
    /\ received' = <<>>
    /\ report' = NoReport
    /\ UNCHANGED <<bconfig, entry, recipients, work, short, nextIdx, currentNonce,
                   results, fetched, transferLog, sent, pauses>>
    /\ UNCHANGED rvars

\* ===================================================== BatchReportManager

\* A JSON document on disk: an array of items, or an object with metadata
\* (failedCount), recipients and failedDetails.
NoFile ==
    [written |-> FALSE, isArray |-> FALSE, items |-> <<>>, failedCount |-> 0,
     recipients |-> <<>>, failedDetails |-> <<>>]

\* saveFailedTransfers: JSON.stringify({metadata, recipients, failedDetails}).
saveFailedTransfers(failedTransfers) ==
    [written |-> TRUE, isArray |-> FALSE, items |-> <<>>,
     failedCount |-> Len(failedTransfers),
     recipients |-> [i \in 1..Len(failedTransfers) |->
                        [address |-> failedTransfers[i].recipient,
                         amount |-> failedTransfers[i].amount]],
     failedDetails |-> failedTransfers]

NotLoaded == [by |-> "none", accepted |-> FALSE, error |-> "none", recipients |-> <<>>]

ArrayExpected == "JSON file must contain an array of recipients"

\* rawRecipients.map(item => ({address: item.address, amount: amount.toString()}))
toBatchRecipients(items) ==
    [i \in 1..Len(items) |-> [address |-> items[i].address, amount |-> items[i].amount]]

\* BatchSenderCLI.loadRecipients: Array.isArray, then the items as they are.
loadRecipients(raw) ==
    IF ~raw.isArray
    THEN [by |-> "loadRecipients", accepted |-> FALSE, error |-> ArrayExpected,
          recipients |-> <<>>]
    ELSE [by |-> "loadRecipients", accepted |-> TRUE, error |-> "none",
          recipients |-> toBatchRecipients(raw.items)]

\* BatchTokenSender.loadRecipientsFromJson: Array.isArray, then validateRecipients.
loadRecipientsFromJson(raw) ==
    IF ~raw.isArray
    THEN [by |-> "loadRecipientsFromJson", accepted |-> FALSE,
          error |-> "Failed to load recipients: " \o ArrayExpected, recipients |-> <<>>]
    ELSE IF validateRecipientsThrows(toBatchRecipients(raw.items))
    THEN [by |-> "loadRecipientsFromJson", accepted |-> FALSE,
          error |-> "Failed to load recipients: invalid recipient", recipients |-> <<>>]
    ELSE [by |-> "loadRecipientsFromJson", accepted |-> TRUE, error |-> "none",
          recipients |-> validated(toBatchRecipients(raw.items))]

\* The outcome lists a transfer loop can hand over: one outcome per recipient
\* of a clean list, a success or a failure with a provider error.
OutcomesOf(rcp, i) ==
    {successResult(rcp, TxHash(i), i)} \cup {failedResult(rcp, e, 0) : e \in ProviderErrors}

OutcomeLists ==
    UNION {{rs \in [1..n -> UNION {OutcomesOf(Clean(n)[i], i) : i \in 1..n}] :
               \A i \in 1..n : rs[i] \in OutcomesOf(Clean(n)[i], i)} :
           n \in 0..MaxRecipients}

\* The private keys a run is configured with (hexadecimal digits) and the
\* address of the wallet each of them opens.
PrivateKeys == {<<"1", "2", "3">>, <<"4", "5", "6">>}
walletAddress(key) ==
    IF key = <<"1", "2", "3">> THEN <<"0x", "a", "b">> ELSE <<"0x", "c", "d">>
Signers == {[privateKey |-> k, address |-> walletAddress(k)] : k \in PrivateKeys}

\* privateKey.slice(-AddressDigits)
slice(s, n) == IF Len(s) > n THEN SubSeq(s, Len(s) - n + 1, Len(s)) ELSE s

\* summary.senderAddress as BatchReportManager.generateReport writes it.
reportSender(config) ==
    IF config.privateKey # <<>> THEN <<"0x">> \o slice(config.privateKey, AddressDigits)
    ELSE <<"unknown">>

ReportIdle ==
    /\ signer = [privateKey |-> <<"1", "2", "3">>, address |-> walletAddress(<<"1", "2", "3">>)]
    /\ senderAddress = <<>>
    /\ outcomes = <<>>
    /\ ppc = "idle"
    /\ batchReport = NoReport
    /\ reportFile = NoReport
    /\ failedFile = NoFile
    /\ writes = <<>>
    /\ loaded = NotLoaded

\* run has its outcome list and enters the report phase.
PInit ==
    /\ signer \in Signers
    /\ senderAddress = <<>>
    /\ outcomes \in OutcomeLists
    /\ ppc = "start"
    /\ batchReport = NoReport
    /\ reportFile = NoReport
    /\ failedFile = NoFile
    /\ writes = <<>>
    /\ loaded = NotLoaded

\* generateReport, then saveReport up to its return or throw.  A throw is
\* caught by the catch of the report phase, which ends in process.exit(1).
WriteReport ==
    /\ ppc = "start"
    /\ batchReport' = generateReport(outcomes)
    /\ \E ok \in BOOLEAN :
         /\ writes' = Append(writes, [file |-> "report", ok |-> ok])
         /\ reportFile' = IF ok THEN generateReport(outcomes) ELSE reportFile
         /\ senderAddress' = IF ok THEN reportSender(signer) ELSE senderAddress
         /\ ppc' = IF ok THEN "reportSaved" ELSE "exited"
    /\ UNCHANGED <<outcomes, failedFile, loaded, signer>>

\* The summary, then `if (report.summary.failed > 0)` saveFailedTransfers up
\* to its return or throw.
WriteFailedTransfers ==
    /\ ppc = "reportSaved"
    /\ IF batchReport.failed > 0
       THEN \E ok \in BOOLEAN :
              /\ writes' = Append(writes, [file |-> "failed", ok |-> ok])
              /\ failedFile' = IF ok THEN saveFailedTransfers(batchReport.failedList)
                               ELSE failedFile
              /\ ppc' = IF ok THEN "finished" ELSE "exited"
       ELSE /\ ppc' = "finished"
            /\ UNCHANGED <<writes, failedFile>>
    /\ UNCHANGED <<outcomes, batchReport, reportFile, loaded, signer, senderAddress>>

\* A new run is given the failed-transfers file as its --input (the CLI) or
\* as the path of loadRecipientsFromJson.
LoadFailedFile ==
    /\ ppc = "finished"
    /\ failedFile.written
    /\ \E loader \in {"loadRecipients", "loadRecipientsFromJson"} :
         loaded' = IF loader = "loadRecipients" THEN loadRecipients(failedFile)
                   ELSE loadRecipientsFromJson(failedFile)
    /\ ppc' = "reloaded"
    /\ UNCHANGED <<outcomes, batchReport, reportFile, failedFile, writes, signer,
                   senderAddress>>

\* ======================================================== EtherscanClient

\* What httpClient.get settles with: a response (status, message and the
\* shape of result: "rows", an array with rows; "empty", the empty array;
\* "text", a string), or a rejection (a timeout, or the error the response
\* interceptor throws for HTTP 403).
response(st, msg, res) ==
    [resolved |-> TRUE, status |-> st, message |-> msg, result |-> res,
     error |-> "none"]
rejection(error) ==
    [resolved |-> FALSE, status |-> "none", message |-> "none", result |-> "none",
     error |-> error]

HttpOutcomes ==
    {response("1", "OK", "rows"),
     response("0", "No transactions found", "empty"),
     response("0", "Invalid API Key", "empty"),
     response("0", "NOTOK", "text"),
     rejection("Invalid API key or rate limit exceeded")}

NoAnswer == rejection("none")

\* ---- faulty variant of counted: only answers with status '1' are counted
counted_okOnly(resp) == resp.resolved /\ resp.status = "1"

\* this.apiCallCount++ stands right after `await this.httpClient.get`.
counted(resp) == resp.resolved

\* The messages with which status '0' is a valid answer.
NoDataMessages == {"No transactions found", "OK"}

\* The callback makeRequest hands to executeWithRetry, from the settlement
\* of the get on: what it returns or throws.
attemptOutcome(resp) ==
    IF ~resp.resolved
    THEN [threw |-> TRUE, error |-> resp.error, data |-> "none"]
    ELSE IF resp.status = "0"
              /\ ~(resp.message \in NoDataMessages \/ resp.result = "empty")
    THEN [threw |-> TRUE, error |-> "API Error: " \o resp.message, data |-> "none"]
    ELSE [threw |-> FALSE, error |-> "none", data |-> resp.result]

\* What a logical call ended with.
NoResult == [kind |-> "none", data |-> "none", name |-> "none", originalError |-> "none"]
dataResult(d) == [kind |-> "data", data |-> d, name |-> "none", originalError |-> "none"]
errorResult(n, e) == [kind |-> "error", data |-> "none", name |-> n, originalError |-> e]

NoCall ==
    [pc |-> "none", attempt |-> 0, lastError |-> "undefined", answer |-> NoAnswer,
     result |-> NoResult]

\* ---- faulty variant of afterAttempt: the slot is given back after each attempt
afterAttempt_perAttempt(s, r, out, a) ==
    IF ~out.threw THEN complete(s, r, TRUE)
    ELSE IF exhausted(a, out.error) THEN complete(s, r, FALSE)
    ELSE [s EXCEPT !.activeRequests = @ - 1]

\* The queue after attempt a of call r: `await request.fn()` in processQueue
\* goes on only when executeWithRetry has returned or thrown.
afterAttempt(s, r, out, a) ==
    IF ~out.threw THEN complete(s, r, TRUE)
    ELSE IF exhausted(a, out.error) THEN complete(s, r, FALSE)
    ELSE s

ExplorerIdle ==
    /\ xcall = [r \in Reqs |-> NoCall]
    /\ apiCallCount = 0
    /\ roundTrips = 0
    /\ justReset = FALSE

\* The constructor: a RetryUtil, a RequestQueue, apiCallCount = 0.
EInit ==
    /\ QInit
    /\ rconfig \in [maxRetries : {0, MaxAttempts}, baseDelayMs : {1000},
                    maxDelayMs : {10000}, backoffMultiplier : {2}]
    /\ plan = 0
    /\ rpc = "idle"
    /\ attempt = 1
    /\ calls = 0
    /\ lastError = "undefined"
    /\ delays = <<>>
    /\ raised = NotRaised
    /\ ExplorerIdle

\* makeRequest: requestQueue.enqueue(...).
makeRequest ==
    /\ enqueued < MaxCalls
    /\ Enqueue
    /\ justReset' = FALSE
    /\ UNCHANGED <<xcall, apiCallCount, roundTrips>>

\* The timer fires with a free slot and a queued call: processQueue invokes
\* the call, executeWithRetry enters its loop and the first get is sent.
\* With maxRetries 0 the loop is skipped and `throw lastError!` rejects the
\* call at once.
Dispatch ==
    /\ intervalId
    /\ activeRequests < maxConcurrent
    /\ Len(queue) > 0
    /\ LET r == Head(queue)
       IN  IF 1 <= rconfig.maxRetries
           THEN /\ Become(processQueue(Cur, FALSE))
                /\ xcall' = [xcall EXCEPT ![r] = [NoCall EXCEPT !.pc = "get",
                                                                 !.attempt = 1]]
           ELSE /\ Become(complete(processQueue(Cur, FALSE), r, FALSE))
                /\ xcall' = [xcall EXCEPT ![r] =
                                [NoCall EXCEPT !.pc = "ended", !.attempt = 1,
                                               !.result = errorResult("undefined", "none")]]
    /\ justReset' = FALSE
    /\ UNCHANGED <<maxConcurrent, enqueued, ticks, destroyed, waiting,
                   apiCallCount, roundTrips>>

\* The get of call r settles: the counter, the status test, and the catch
\* block of executeWithRetry up to its throw or its await of sleep.
Respond(r) ==
    /\ xcall[r].pc = "get"
    /\ \E resp \in HttpOutcomes :
         LET out == attemptOutcome(resp)
             a == xcall[r].attempt
         IN  /\ apiCallCount' = IF counted(resp) THEN apiCallCount + 1 ELSE apiCallCount
             /\ roundTrips' = IF resp.resolved THEN roundTrips + 1 ELSE roundTrips
             /\ Become(afterAttempt(Cur, r, out, a))
             /\ xcall' = [xcall EXCEPT ![r] =
                  IF ~out.threw
                  THEN [@ EXCEPT !.pc = "ended", !.answer = resp,
                                 !.result = dataResult(out.data)]
                  ELSE IF exhausted(a, out.error)
                  THEN [@ EXCEPT !.pc = "ended", !.answer = resp,
                                 !.lastError = out.error,
                                 !.result = errorResult("RetryError", out.error)]
                  ELSE [@ EXCEPT !.pc = "sleep", !.answer = resp,
                                 !.lastError = out.error]]
    /\ justReset' = FALSE
    /\ UNCHANGED <<maxConcurrent, enqueued, ticks, destroyed, waiting>>

\* sleep(delay) of call r resolves: attempt++, the next get is sent.
WakeCall(r) ==
    /\ xcall[r].pc = "sleep"
    /\ xcall' = [xcall EXCEPT ![r].pc = "get", ![r].attempt = @ + 1]
    /\ justReset' = FALSE
    /\ UNCHANGED <<apiCallCount, roundTrips>>
    /\ UNCHANGED qvars

resetApiCallCount ==
    /\ apiCallCount' = 0
    /\ roundTrips' = 0
    /\ justReset' = TRUE
    /\ UNCHANGED xcall
    /\ UNCHANGED qvars

\* ================================== TransactionFilterService / TokenParser

\* The five fetches of filterTransactions, named by the client method.
Categories ==
    {"getTransactions", "getInternalTransactions", "getTokenTransfers",
     "getERC721Transfers", "getERC1155Transfers"}

Contracts == {"0xT1", "0xT2"}

\* String.prototype.toLowerCase on the addresses in use.
toLowerCase(s) == IF s = "0xAbC" THEN "0xabc" ELSE IF s = "0xDeF" THEN "0xdef" ELSE s

\* parseInt on the decimal strings in use.
parseInt(s) == CHOOSE k \in 0..99 : ToString(k) = s

\* A record of the explorer; timeStamp is in seconds.
row(h, t, f, to, c) ==
    [hash |-> h, timeStamp |-> t, from |-> f, to |-> to, contractAddress |-> c]

\* What the chain holds for the queried address, by category.
Ledger(c) ==
    CASE c = "getTransactions" ->
            <<row("0xh1", "10", "0xabc", "0xdef", "none"),
              row("0xh2", "20", "0xdef", "0xAbC", "none")>>
      [] c = "getInternalTransactions" ->
            <<row("0xh1", "21", "0xdef", "0xabc", "none")>>
      [] c = "getTokenTransfers" ->
            <<row("0xh1", "10", "0xDeF", "0xabc", "0xT1"),
              row("0xh2", "9", "0xabc", "0xdef", "0xT1")>>
      [] c = "getERC721Transfers" ->
            <<row("0xh1", "20", "0xdef", "0xabc", "0xT2"),
              row("0xh3", "20", "0xabc", "0xdef", "0xT2")>>
      [] c = "getERC1155Transfers" ->
            <<row("0xh1", "10", "0xabc", "0xdef", "0xT2")>>

RECURSIVE SubSeqs(_)
SubSeqs(s) ==
    IF s = <<>> THEN {<<>>}
    ELSE LET rest == SubSeqs(Tail(s))
         IN  rest \cup {<<Head(s)>> \o t : t \in rest}

\* The filters a call is made with; the dates are in milliseconds and the
\* two direction flags exclude each other.
Filters ==
    {f \in [address : {"0xAbC"}, startDate : {10000, 10500}, endDate : {20500},
            includeInternal : BOOLEAN, includeTokenTransfers : {TRUE},
            includeERC721 : BOOLEAN, includeERC1155 : {TRUE},
            incomingOnly : BOOLEAN, outgoingOnly : BOOLEAN] :
        ~(f.incomingOnly /\ f.outgoingOnly)}

included(f, c) ==
    CASE c = "getTransactions" -> TRUE
      [] c = "getInternalTransactions" -> f.includeInternal
      [] c = "getTokenTransfers" -> f.includeTokenTransfers
      [] c = "getERC721Transfers" -> f.includeERC721
      [] c = "getERC1155Transfers" -> f.includeERC1155

pendingFetch == [pc |-> "pending", records |-> <<>>, error |-> "none"]
fulfilledFetch(rs) == [pc |-> "fulfilled", records |-> rs, error |-> "none"]
rejectedFetch(e) == [pc |-> "rejected", records |-> <<>>, error |-> e]

\* ---- faulty variant of promiseAll: a failed fetch counts as an empty list
promiseAll_settled(fs) ==
    IF \A c \in Categories : fs[c].pc # "pending" THEN "fulfilled" ELSE "pending"

\* Promise.all over the five fetches.
promiseAll(fs) ==
    IF \E c \in Categories : fs[c].pc = "rejected" THEN "rejected"
    ELSE IF \A c \in Categories : fs[c].pc = "fulfilled" THEN "fulfilled"
    ELSE "pending"

\* txTimestamp >= startTimestamp && txTimestamp <= endTimestamp, with
\* startTimestamp = Math.floor(startDate.getTime() / 1000) and likewise the end.
inRange(tx, f) ==
    LET txTimestamp == parseInt(tx.timeStamp)
    IN  txTimestamp >= f.startDate \div 1000 /\ txTimestamp <= f.endDate \div 1000

applyDirectionFilter(items, f) ==
    IF ~f.incomingOnly /\ ~f.outgoingOnly THEN items
    ELSE SelectSeq(items, LAMBDA item :
            IF f.incomingOnly THEN toLowerCase(item.to) = toLowerCase(f.address)
            ELSE toLowerCase(item.from) = toLowerCase(f.address))

\* The finalFiltered... lists.
finalFiltered(fs, f) ==
    [c \in Categories |->
        applyDirectionFilter(SelectSeq(fs[c].records, LAMBDA tx : inRange(tx, f)), f)]

\* parseERC20Transfers / parseERC721Transfers / parseERC1155Transfers: the
\* metadata is the one the transfer record carries.
parseTransfers(transfers, standard) ==
    [i \in 1..Len(transfers) |->
        [standard |-> standard, contractAddress |-> transfers[i].contractAddress,
         from |-> transfers[i].from, to |-> transfers[i].to,
         transactionHash |-> transfers[i].hash, timestamp |-> transfers[i].timeStamp,
         tokenMetadata |-> "basic"]]

\* parseAllTokenTransfers before the metadata: the three standards in one list.
allTransfers(k) ==
    parseTransfers(k["getTokenTransfers"], "ERC20")
        \o parseTransfers(k["getERC721Transfers"], "ERC721")
        \o parseTransfers(k["getERC1155Transfers"], "ERC1155")

\* ---- faulty variant of getTokenMetadata: the failure is passed on
getTokenMetadata_rethrows(cache, c, ok) ==
    IF ok THEN [value |-> "info", cache |-> cache \cup {c}, threw |-> FALSE]
    ELSE [value |-> "null", cache |-> cache, threw |-> TRUE]

\* getTokenMetadata after a cache miss, from the settlement of getTokenInfo on.
getTokenMetadata(cache, c, ok) ==
    IF ok THEN [value |-> "info", cache |-> cache \cup {c}, threw |-> FALSE]
    ELSE [value |-> "null", cache |-> cache, threw |-> FALSE]

\* enhanceTransfersWithMetadata, its loop over the transfers.
enhanceTransfersWithMetadata(transfers, mm) ==
    [i \in 1..Len(transfers) |->
        IF mm[transfers[i].contractAddress] = "info"
        THEN [transfers[i] EXCEPT !.tokenMetadata = "enriched"]
        ELSE transfers[i]]

\* ---- faulty variant of groupTransfersByTransactionHash: one transfer a hash
groupTransfersByTransactionHash_first(transfers, h) ==
    LET all == SelectSeq(transfers, LAMBDA t : t.transactionHash = h)
    IN  IF all = <<>> THEN <<>> ELSE <<all[1]>>

\* groupTransfersByTransactionHash(transfers).get(h) || []
groupTransfersByTransactionHash(transfers, h) ==
    SelectSeq(transfers, LAMBDA t : t.transactionHash = h)

\* filteredResults: one entry a retained transaction.
filteredResults(k, transfers) ==
    [i \in 1..Len(k["getTransactions"]) |->
        [transaction |-> k["getTransactions"][i],
         internalTransactions |->
             SelectSeq(k["getInternalTransactions"],
                       LAMBDA tx : tx.hash = k["getTransactions"][i].hash),
         tokenTransfers |->
             groupTransfersByTransactionHash(transfers, k["getTransactions"][i].hash)]]

NoneKept == [c \in Categories |-> <<>>]
NoMetadata == [c \in Contracts |-> "none"]

FilterIdle ==
    /\ filter = [address |-> "0xAbC", startDate |-> 10000, endDate |-> 20500,
                 includeInternal |-> FALSE, includeTokenTransfers |-> TRUE,
                 includeERC721 |-> FALSE, includeERC1155 |-> TRUE,
                 incomingOnly |-> FALSE, outgoingOnly |-> FALSE]
    /\ fpc = "idle"
    /\ fetch = [c \in Categories |-> fulfilledFetch(<<>>)]
    /\ kept = NoneKept
    /\ metadataMap = NoMetadata
    /\ tokenMetadataCache = {}
    /\ parsed = <<>>
    /\ filterResult = <<>>
    /\ filterError = "none"

\* A service is constructed (empty metadata cache) and is about to be
\* called with a filter.
FInit ==
    /\ filter \in Filters
    /\ fpc = "start"
    /\ fetch = [c \in Categories |-> fulfilledFetch(<<>>)]
    /\ kept = NoneKept
    /\ metadataMap = NoMetadata
    /\ tokenMetadataCache = {}
    /\ parsed = <<>>
    /\ filterResult = <<>>
    /\ filterError = "none"

\* The rest of filterTransactions once every metadata lookup has settled.
finish(k, transfers, mm) ==
    /\ parsed' = enhanceTransfersWithMetadata(transfers, mm)
    /\ filterResult' = filteredResults(k, enhanceTransfersWithMetadata(transfers, mm))
    /\ fpc' = "returned"
    /\ UNCHANGED filterError

\* filterTransactions up to `await Promise.all`: the included fetches are
\* started, the others are Promise.resolve([]).  The cache outlives the call.
filterTransactions ==
    /\ fpc \in {"start", "returned", "rejected"}
    /\ fpc' = "fetching"
    /\ fetch' = [c \in Categories |->
                    IF included(filter, c) THEN pendingFetch ELSE fulfilledFetch(<<>>)]
    /\ kept' = NoneKept
    /\ metadataMap' = NoMetadata
    /\ parsed' = <<>>
    /\ filterResult' = <<>>
    /\ filterError' = "none"
    /\ UNCHANGED <<filter, tokenMetadataCache>>

\* The paginated fetch of category c ends: with the records of its pages, or
\* with the failure of one of its explorer calls.  When Promise.all settles
\* the call goes on to the filters and to getTokenMetadata for every
\* contract of the retained transfers; a cached contract is answered at once.
FetchSettles(c) ==
    /\ fpc = "fetching"
    /\ fetch[c].pc = "pending"
    /\ \E out \in {rejectedFetch(retryErrorMessage(3, c))}
                     \cup {fulfilledFetch(rs) : rs \in SubSeqs(Ledger(c))} :
         LET fs == [fetch EXCEPT ![c] = out]
             k == finalFiltered(fs, filter)
             transfers == allTransfers(k)
             mm == [t \in Contracts |->
                      IF \A i \in 1..Len(transfers) : transfers[i].contractAddress # t
                      THEN "none"
                      ELSE IF t \in tokenMetadataCache THEN "info" ELSE "pending"]
         IN  /\ fetch' = fs
             /\ CASE promiseAll(fs) = "pending" ->
                        UNCHANGED <<fpc, kept, metadataMap, parsed, filterResult,
                                    filterError>>
                  [] promiseAll(fs) = "rejected" ->
                        /\ fpc' = "rejected"
                        /\ filterError' = out.error
                        /\ UNCHANGED <<kept, metadataMap, parsed, filterResult>>
                  [] promiseAll(fs) = "fulfilled" ->
                        /\ kept' = k
                        /\ metadataMap' = mm
                        /\ IF \E t \in Contracts : mm[t] = "pending"
                           THEN /\ fpc' = "metadata"
                                /\ UNCHANGED <<parsed, filterResult, filterError>>
                           ELSE finish(k, transfers, mm)
    /\ UNCHANGED <<filter, tokenMetadataCache>>

\* getTokenInfo for contract t settles inside getTokenMetadata.
MetadataSettles(t) ==
    /\ fpc = "metadata"
    /\ metadataMap[t] = "pending"
    /\ \E ok \in BOOLEAN :
         LET got == getTokenMetadata(tokenMetadataCache, t, ok)
             mm == [metadataMap EXCEPT ![t] = got.value]
         IN  /\ tokenMetadataCache' = got.cache
             /\ metadataMap' = mm
             /\ IF got.threw
                THEN /\ fpc' = "rejected"
                     /\ filterError' = "getTokenInfo failed"
                     /\ UNCHANGED <<parsed, filterResult>>
                ELSE IF \E u \in Contracts : mm[u] = "pending"
                THEN UNCHANGED <<fpc, parsed, filterResult, filterError>>
                ELSE finish(kept, allTransfers(kept), mm)
    /\ UNCHANGED <<filter, fetch, kept>>

\* ========================================= fetchAllTransactions and siblings

\* The rows of a page, and the pages the explorer can answer with: up to
\* PageSize rows.
Rows == {"a", "b"}
PagesOfLength(n) == [1..n -> Rows]
ShortPages == UNION {PagesOfLength(n) : n \in 0..(PageSize - 1)}

\* What the explorer answers to the request of page p: any page before
\* MaxPages, a short one from there on.
Answers(p) == IF p < MaxPages THEN ShortPages \cup PagesOfLength(PageSize) ELSE ShortPages

pagerState(pc, p, reqs, got, all) ==
    [gpc |-> pc, page |-> p, requests |-> reqs, pages |-> got, allRows |-> all]

\* ---- faulty variant of fetchStep: only an empty page ends the loop
fetchStep_untilEmpty(s, rows) ==
    IF Len(rows) = 0
    THEN pagerState("returned", s.page, s.requests, Append(s.pages, rows), s.allRows)
    ELSE pagerState("awaiting", s.page + 1,
                    Append(s.requests, [page |-> s.page + 1, offset |-> PageSize]),
                    Append(s.pages, rows), s.allRows \o rows)

\* The loop body from the settlement of the client call on: break on an
\* empty page, push, break on a short page, page++ and the next call.
fetchStep(s, rows) ==
    IF Len(rows) = 0
    THEN pagerState("returned", s.page, s.requests, Append(s.pages, rows), s.allRows)
    ELSE IF Len(rows) < PageSize
    THEN pagerState("returned", s.page, s.requests, Append(s.pages, rows),
                    s.allRows \o rows)
    ELSE pagerState("awaiting", s.page + 1,
                    Append(s.requests, [page |-> s.page + 1, offset |-> PageSize]),
                    Append(s.pages, rows), s.allRows \o rows)

PagerIdle ==
    /\ method = "getTransactions"
    /\ page = 1
    /\ requests = <<>>
    /\ pages = <<>>
    /\ allRows = <<>>
    /\ gpc = "idle"

\* fetchAll... is called: page = 1, offset = PageSize, the first client call.
GInit ==
    /\ method \in Categories
    /\ page = 1
    /\ requests = <<[page |-> 1, offset |-> PageSize]>>
    /\ pages = <<>>
    /\ allRows = <<>>
    /\ gpc = "awaiting"

PageArrives ==
    /\ gpc = "awaiting"
    /\ \E rows \in Answers(page) :
         LET s == fetchStep(pagerState(gpc, page, requests, pages, allRows), rows)
         IN  /\ gpc' = s.gpc
             /\ page' = s.page
             /\ requests' = s.requests
             /\ pages' = s.pages
             /\ allRows' = s.allRows
    /\ UNCHANGED method

\* The client call rejects: nothing catches it, the fetch rejects.
PageFails ==
    /\ gpc = "awaiting"
    /\ gpc' = "rejected"
    /\ UNCHANGED <<method, page, requests, pages, allRows>>

\* ============================== TokenParser shared by overlapping filter runs

\* The filterTransactions runs in flight on one engine.
Runs == 1..2

\* A TokenParser is constructed: nothing looked up, nothing queried.
ParserIdle ==
    /\ lookup = [r \in Runs |-> [t \in Contracts |-> "none"]]
    /\ issued = [t \in Contracts |-> 0]
    /\ succeeded = [t \in Contracts |-> 0]

\* getTokenMetadata up to its await: a hit is answered from the cache, a
\* miss calls getTokenInfo.
LookupStarts(r, t) ==
    /\ lookup[r][t] \notin {"pending", "cached"}
    /\ IF t \in tokenMetadataCache
       THEN /\ lookup' = [lookup EXCEPT ![r][t] = "cached"]
            /\ UNCHANGED issued
       ELSE /\ issued[t] < MaxQueries
            /\ lookup' = [lookup EXCEPT ![r][t] = "pending"]
            /\ issued' = [issued EXCEPT ![t] = @ + 1]
    /\ UNCHANGED <<succeeded, tokenMetadataCache>>

\* getTokenInfo settles for run r: the rest of getTokenMetadata.
LookupSettles(r, t) ==
    /\ lookup[r][t] = "pending"
    /\ \E ok \in BOOLEAN :
         LET got == getTokenMetadata(tokenMetadataCache, t, ok)
         IN  /\ tokenMetadataCache' = got.cache
             /\ lookup' = [lookup EXCEPT ![r][t] = got.value]
             /\ succeeded' = [succeeded EXCEPT ![t] = IF ok THEN @ + 1 ELSE @]
    /\ UNCHANGED issued

\* ================================================= chunkArray, step by step

ChunkerIdle ==
    /\ carray = <<>>
    /\ csize = 1
    /\ ci = 0
    /\ chunks = <<>>
    /\ cpc = "idle"

\* chunkArray(array, size) is entered: chunks = [], i = 0.
CInit ==
    /\ carray \in RecipientLists
    /\ csize \in 0..MaxBatchSize
    /\ ci = 0
    /\ chunks = <<>>
    /\ cpc = "test"

\* array.slice(from, to), indices counted from 0.
sliceOf(a, from, to) == SubSeq(a, from + 1, Min(to, Len(a)))

\* The loop test i < array.length holds: the body is entered.
ChunkEnters ==
    /\ cpc = "test"
    /\ ci < Len(carray)
    /\ cpc' = "body"
    /\ UNCHANGED <<carray, csize, ci, chunks>>

\* The body and the increment: chunks.push(array.slice(i, i + size)); i += size.
\* No more than Len(array) + 1 chunks are followed.
ChunkTurn ==
    /\ cpc = "body"
    /\ chunks' = IF Len(chunks) <= Len(carray)
                 THEN Append(chunks, sliceOf(carray, ci, ci + csize)) ELSE chunks
    /\ ci' = ci + csize
    /\ cpc' = "test"
    /\ UNCHANGED <<carray, csize>>

\* The loop test fails: return chunks.
ChunkReturns ==
    /\ cpc = "test"
    /\ ~(ci < Len(carray))
    /\ cpc' = "returned"
    /\ UNCHANGED <<carray, csize, ci, chunks>>

\* ======================================================= specifications

Init == QInit /\ RetryIdle /\ BatchIdle /\ ReportIdle /\ ExplorerIdle /\ FilterIdle /\ PagerIdle /\ ParserIdle /\ ChunkerIdle

Next ==
    \/ Enqueue /\ UNCHANGED restOfQueue
    \/ Tick /\ UNCHANGED restOfQueue
    \/ (\E r \in Reqs : Complete(r)) /\ UNCHANGED restOfQueue
    \/ Clear /\ UNCHANGED restOfQueue
    \/ Destroy /\ UNCHANGED restOfQueue
    \/ (\E w \in Waiters : waitForCompletion(w)) /\ UNCHANGED restOfQueue
    \/ (\E w \in Waiters : Poll(w)) /\ UNCHANGED restOfQueue

Spec == Init /\ [][Next]_vars

\* The queue with the timer and every awaited operation and poll timer fair:
\* setInterval keeps firing until clearInterval, a dispatched operation
\* terminates, and setTimeout fires.
LiveNext ==
    \/ Enqueue /\ UNCHANGED restOfQueue
    \/ TickL /\ UNCHANGED restOfQueue
    \/ (\E r \in Reqs : Complete(r)) /\ UNCHANGED restOfQueue
    \/ Clear /\ UNCHANGED restOfQueue
    \/ Destroy /\ UNCHANGED restOfQueue
    \/ (\E w \in Waiters : waitForCompletion(w)) /\ UNCHANGED restOfQueue
    \/ (\E w \in Waiters : Poll(w)) /\ UNCHANGED restOfQueue

LiveSpec ==
    /\ Init
    /\ [][LiveNext]_vars
    /\ WF_vars(TickL /\ UNCHANGED restOfQueue)
    /\ \A r \in Reqs : WF_vars(Complete(r) /\ UNCHANGED restOfQueue)
    /\ \A w \in Waiters : WF_vars(Poll(w) /\ UNCHANGED restOfQueue)

QueueIdle ==
    /\ maxConcurrent = 1
    /\ queue = <<>>
    /\ activeRequests = 0
    /\ intervalId = TRUE
    /\ enqueued = 0
    /\ status = [r \in Reqs |-> "none"]
    /\ outcome = [r \in Reqs |-> "none"]
    /\ settles = [r \in Reqs |-> 0]
    /\ dispatched = <<>>
    /\ ticks = 0
    /\ destroyed = FALSE
    /\ waiting = [w \in Waiters |-> "none"]

RetryNext ==
    \/ AttemptSucceeds /\ UNCHANGED restOfRetry
    \/ AttemptFails /\ UNCHANGED restOfRetry
    \/ Wake /\ UNCHANGED restOfRetry
    \/ LoopExit /\ UNCHANGED restOfRetry

RetryInit ==
    QueueIdle /\ BatchIdle /\ ReportIdle /\ ExplorerIdle /\ FilterIdle /\ PagerIdle /\ ParserIdle /\ ChunkerIdle /\ RInit

RetrySpec == RetryInit /\ [][RetryNext]_vars

BatchNext ==
    \/ executeBatch /\ UNCHANGED restOfBatch
    \/ run /\ UNCHANGED restOfBatch
    \/ getTransactionCount /\ UNCHANGED restOfBatch
    \/ StartTransfer /\ UNCHANGED restOfBatch
    \/ TransferReturns /\ UNCHANGED restOfBatch
    \/ TransferThrows /\ UNCHANGED restOfBatch
    \/ Wake /\ UNCHANGED restOfRetry
    \/ NoAttempt /\ UNCHANGED restOfBatch
    \/ Report /\ UNCHANGED restOfBatch
    \/ Abort /\ UNCHANGED restOfBatch

BatchInit ==
    QueueIdle /\ RetryIdle /\ ReportIdle /\ ExplorerIdle /\ FilterIdle /\ PagerIdle /\ ParserIdle /\ ChunkerIdle /\ BInit

BatchSpec == BatchInit /\ [][BatchNext]_vars

\* ---- the report phase
ReportNext ==
    \/ WriteReport /\ UNCHANGED restOfReport
    \/ WriteFailedTransfers /\ UNCHANGED restOfReport
    \/ LoadFailedFile /\ UNCHANGED restOfReport

ReportInit ==
    QueueIdle /\ RetryIdle /\ BatchIdle /\ ExplorerIdle /\ FilterIdle /\ PagerIdle /\ ParserIdle /\ ChunkerIdle /\ PInit

ReportSpec == ReportInit /\ [][ReportNext]_vars

\* ---- the explorer client: logical calls through the queue and the retry loop
ExplorerNext ==
    \/ makeRequest /\ UNCHANGED restOfExplorer
    \/ Dispatch /\ UNCHANGED restOfExplorer
    \/ (\E r \in Reqs : Respond(r)) /\ UNCHANGED restOfExplorer
    \/ (\E r \in Reqs : WakeCall(r)) /\ UNCHANGED restOfExplorer
    \/ resetApiCallCount /\ UNCHANGED restOfExplorer

ExplorerInit == BatchIdle /\ ReportIdle /\ FilterIdle /\ PagerIdle /\ ParserIdle /\ ChunkerIdle /\ EInit

ExplorerSpec == ExplorerInit /\ [][ExplorerNext]_vars

\* ---- the filter service
FilterNext ==
    \/ filterTransactions /\ UNCHANGED restOfFilter
    \/ (\E c \in Categories : FetchSettles(c)) /\ UNCHANGED restOfFilter
    \/ (\E t \in Contracts : MetadataSettles(t)) /\ UNCHANGED restOfFilter

FilterInit ==
    QueueIdle /\ RetryIdle /\ BatchIdle /\ ReportIdle /\ ExplorerIdle /\ PagerIdle
        /\ ParserIdle /\ ChunkerIdle /\ FInit

FilterSpec == FilterInit /\ [][FilterNext]_vars

\* ---- one paginated fetch; every client call settles
PagerNext ==
    \/ PageArrives /\ UNCHANGED restOfPager
    \/ PageFails /\ UNCHANGED restOfPager

PagerInit ==
    QueueIdle /\ RetryIdle /\ BatchIdle /\ ReportIdle /\ ExplorerIdle /\ FilterIdle
        /\ ParserIdle /\ ChunkerIdle /\ GInit

PagerSpec == PagerInit /\ [][PagerNext]_vars /\ WF_vars(PagerNext)

\* ---- two filter runs on one engine look token metadata up
ParserNext ==
    \/ (\E r \in Runs, t \in Contracts : LookupStarts(r, t)) /\ UNCHANGED restOfParser
    \/ (\E r \in Runs, t \in Contracts : LookupSettles(r, t)) /\ UNCHANGED restOfParser

ParserInit ==
    QueueIdle /\ RetryIdle /\ BatchIdle /\ ReportIdle /\ ExplorerIdle /\ FilterIdle
        /\ PagerIdle /\ ParserIdle /\ ChunkerIdle

ParserSpec == ParserInit /\ [][ParserNext]_vars

\* ---- one call of chunkArray; the loop keeps running
ChunkerNext ==
    \/ ChunkEnters /\ UNCHANGED restOfChunker
    \/ ChunkTurn /\ UNCHANGED restOfChunker
    \/ ChunkReturns /\ UNCHANGED restOfChunker

ChunkerInit ==
    QueueIdle /\ RetryIdle /\ BatchIdle /\ ReportIdle /\ ExplorerIdle /\ FilterIdle
        /\ PagerIdle /\ ParserIdle /\ CInit

ChunkerSpec == ChunkerInit /\ [][ChunkerNext]_vars /\ WF_vars(ChunkerNext)

\* ================================================================ claims

Running == {r \in Reqs : status[r] = "running"}
Pending == {r \in Reqs : status[r] = "pending"}

\* C1: in every reachable state the number of dispatched-and-unsettled
\* operations, as counted by activeRequests and as observed on the requests
\* themselves, is at most maxConcurrent.
C1_ActiveWithinLimit ==
    /\ activeRequests <= maxConcurrent
    /\ Cardinality(Running) <= maxConcurrent

\* The limit is reached while a further request waits in the queue.
C1_Witness ==
    /\ maxConcurrent = MaxConc
    /\ Cardinality(Running) = maxConcurrent
    /\ Len(queue) > 0

\* C3: dispatch order is submission order: the dispatched requests appear in
\* the order of their enqueue calls, and every request still pending was
\* enqueued after every request dispatched so far.
C3_Fifo ==
    /\ \A i, j \in 1..Len(dispatched) : i < j => dispatched[i] < dispatched[j]
    /\ \A i \in 1..Len(queue) : \A j \in 1..Len(dispatched) : dispatched[j] < queue[i]
    /\ \A i, j \in 1..Len(queue) : i < j => queue[i] < queue[j]

\* Two requests were dispatched while a third, enqueued before the second
\* dispatch, is still pending.
C3_Witness ==
    /\ Len(dispatched) >= 2
    /\ Len(queue) >= 1
    /\ maxConcurrent >= 2
    /\ Cardinality(Running) = 1

\* C5: after destroy() an enqueue call does not leave a request in the queue;
\* stated as: once destroy() was called no request is pending.
C5_NoPendingAfterDestroy ==
    destroyed => Pending = {}

\* The least time the timer callbacks counted so far have taken.
ElapsedMs == ticks * startProcessing

Dispatched == SeqToSet(dispatched)

\* C2, the safety half: each promise is settled at most once, a settled promise
\* of a dispatched request carries the operation's own result or error, and a
\* settled promise of a request that was never dispatched carries 'Queue cleared'.
C2_Safety ==
    \A r \in Reqs :
        /\ settles[r] <= 1
        /\ (status[r] = "settled") <=> (settles[r] = 1)
        /\ status[r] = "settled" =>
             IF r \in Dispatched THEN outcome[r] \in {"value", "error"}
                                 ELSE outcome[r] = "cleared"
        /\ status[r] # "settled" => outcome[r] = "none"

\* C2: every enqueue call's promise is settled exactly once (C2_Safety), and
\* while the timer keeps firing and dispatched operations terminate, every
\* enqueued request is eventually settled. A request that is pending with the
\* timer stopped is the case the claim's premise excludes.
C2_SettledExactlyOnce ==
    /\ []C2_Safety
    /\ \A r \in Reqs :
         (status[r] \in {"pending", "running"})
           ~> (status[r] = "settled" \/ (~intervalId /\ status[r] = "pending"))

\* All requests were enqueued and settled: one by clear(), the others by
\* their own operation, one with a value and one with an error.
C2_Witness ==
    /\ \A r \in Reqs : status[r] = "settled"
    /\ \E r \in Reqs : outcome[r] = "cleared"
    /\ \E r \in Reqs : outcome[r] = "value"
    /\ \E r \in Reqs : outcome[r] = "error"
    /\ intervalId

\* What clear() must do to state s, giving state t.
ClearPost(s, t) ==
    /\ t.queue = <<>>
    /\ t.activeRequests = s.activeRequests
    /\ t.intervalId = s.intervalId
    /\ t.dispatched = s.dispatched
    /\ \A r \in Reqs :
         IF s.status[r] = "pending"
         THEN t.status[r] = "settled" /\ t.outcome[r] = "cleared" /\ t.settles[r] = 1
         ELSE /\ t.status[r] = s.status[r]
              /\ t.outcome[r] = s.outcome[r]
              /\ t.settles[r] = s.settles[r]

\* C4: called in any reachable state, clear() rejects exactly the pending
\* requests with 'Queue cleared' and empties the queue, leaving activeRequests
\* and the dispatched requests untouched; and a dispatched request is settled
\* only by its own operation's result or error, whether or not clear() ran in
\* between.
C4_ClearRejectsPendingOnly ==
    /\ ClearPost(Cur, clear(Cur))
    /\ \A r \in Dispatched :
         /\ status[r] = "running" => settles[r] = 0 /\ outcome[r] = "none"
         /\ status[r] = "settled" => settles[r] = 1 /\ outcome[r] \in {"value", "error"}
    /\ activeRequests = Cardinality(Running)

\* clear() (not destroy(): the timer is still set) rejected a request while
\* an earlier one was running, and that one has since delivered its value.
C4_Witness ==
    /\ intervalId /\ ~destroyed
    /\ \E r1, r2, r3 \in Reqs :
         /\ r1 < r2 /\ r2 < r3
         /\ outcome[r1] = "value"
         /\ status[r2] = "running"
         /\ outcome[r3] = "cleared"

\* What destroy() must do to state s, giving state t.
DestroyPost(s, t) ==
    /\ t.intervalId = FALSE
    /\ ClearPost([s EXCEPT !.intervalId = FALSE], t)

Idle == queue = <<>> /\ activeRequests = 0

\* C7: waitForCompletion resolves only in a step taken in an idle state (empty
\* queue, no active request, every enqueued request settled), and that step
\* changes nothing of the queue; called while idle it resolves within the call;
\* called while busy it starts polling, and it then resolves once the queue has
\* become idle (unless requests sit in the queue of a destroyed scheduler,
\* which never becomes idle).
C7_WaitForCompletion ==
    /\ [][\A w \in Waiters :
            /\ (waiting[w] # "resolved" /\ waiting'[w] = "resolved") =>
                 /\ Idle
                 /\ \A r \in Reqs : status[r] \in {"none", "settled"}
                 /\ UNCHANGED <<queue, activeRequests, intervalId, enqueued, status,
                                outcome, settles, dispatched>>
            /\ (waiting[w] = "none" /\ waiting'[w] # "none") =>
                 /\ waiting'[w] = (IF Idle THEN "resolved" ELSE "polling")
                 /\ UNCHANGED <<queue, activeRequests, intervalId, enqueued, status,
                                outcome, settles, dispatched>>]_vars
    /\ \A w \in Waiters :
         (waiting[w] = "polling")
           ~> (waiting[w] = "resolved" \/ (~intervalId /\ queue # <<>>))

\* A waiter called while requests were outstanding is still polling, every
\* request has been enqueued and settled by its own operation, and the
\* scheduler is idle: the next poll resolves the waiter.
C7_Witness ==
    /\ \E w \in Waiters : waiting[w] = "polling"
    /\ Idle
    /\ enqueued = MaxReq
    /\ \A r \in Reqs : status[r] = "settled" /\ outcome[r] \in {"value", "error"}

\* ---------------------------------------------------------------- RetryUtil

RetryZeroAttempts ==
    (rpc = "threw" /\ raised.name # "RetryError") <=>
        (rpc = "threw" /\ rconfig.maxRetries = 0 /\ calls = 0 /\ raised.name = "undefined")

\* The delay the claim states for the wait after the k-th failed attempt.
ExpectedDelay(k) ==
    Min(rconfig.baseDelayMs * pow(rconfig.backoffMultiplier, k - 1), rconfig.maxDelayMs)

\* C10: the k-th wait is min(baseDelayMs * backoffMultiplier^(k-1), maxDelayMs);
\* exactly one wait follows each failed attempt but the last, so the first
\* attempt is preceded by no wait, the (k+1)-th attempt by k waits, and no wait
\* follows the final failed attempt or a success.
C10_Backoff ==
    /\ \A k \in 1..Len(delays) : delays[k] = ExpectedDelay(k)
    /\ rpc = "loop" => Len(delays) = calls /\ attempt = calls + 1
    /\ rpc = "sleep" => Len(delays) = calls /\ calls < rconfig.maxRetries
    /\ rpc \in {"returned", "threw"} =>
         Len(delays) = (IF calls = 0 THEN 0 ELSE calls - 1)

\* Three attempts failed, the last with an error isRetryableError rejects; two
\* waits were made, the second capped at maxDelayMs, and none after the last.
C10_Witness ==
    /\ rpc = "threw"
    /\ raised.name = "RetryError"
    /\ calls = 3
    /\ ~isRetryableError(lastError)
    /\ Len(delays) = 2
    /\ delays[1] = rconfig.baseDelayMs
    /\ delays[2] = rconfig.maxDelayMs
    /\ delays[1] < delays[2]

\* --------------------------------------------------------- BatchTokenSender

\* Indices of the recipients whose outcome is recorded / is a success.
Recorded == 1..Len(results)
Succeeded == {j \in Recorded : results[j].status = "success"}
\* The batch recipient idx belongs to (counted from 0).
BatchOf(idx) == (idx - 1) \div bconfig.batchSize
\* Number of batches whose processing has begun.
BatchesStarted ==
    IF bpc = "transfer" THEN batchIndex + 1
    ELSE (nextIdx - 1 + bconfig.batchSize - 1) \div bconfig.batchSize
\* The executeTransfer calls made so far for recipient idx.
CallsFor(idx) == {k \in 1..Len(transferLog) : transferLog[k].idx = idx}

\* C11: the nonce is read from the provider once per batch started, and
\* every executeTransfer call for a recipient is passed the nonce read for
\* its batch plus the number of earlier recipients of that batch whose
\* outcome is success (a failure leaves the nonce, a success adds 1).
C11_NonceCountsSuccesses ==
    /\ Len(fetched) = BatchesStarted
    /\ \A k \in 1..Len(transferLog) :
         transferLog[k].nonce =
             fetched[BatchOf(transferLog[k].idx) + 1]
                 + Cardinality({j \in Succeeded : /\ j < transferLog[k].idx
                                                  /\ BatchOf(j) = BatchOf(transferLog[k].idx)})

\* Three recipients of one batch with outcomes success, failed, success: the
\* second and the third transfer were passed the same nonce, the first's + 1.
C11_Witness ==
    /\ Len(results) = 3
    /\ bconfig.batchSize = 3
    /\ ~bconfig.dryRun
    /\ results[1].status = "success"
    /\ results[2].status = "failed"
    /\ results[3].status = "success"
    /\ Len(transferLog) = 3
    /\ transferLog[2].nonce = transferLog[1].nonce + 1
    /\ transferLog[3].nonce = transferLog[2].nonce

\* executeBatchTransfers has returned its list.
Returned == bpc \in {"returned", "done"}

\* C12: the outcomes recorded are, in order, those of the first recipients
\* of the list handed to executeBatchTransfers (outcome i carries recipient
\* i's address and amount), and the list returned holds one outcome for
\* every recipient, whichever transfers failed.
C12_OneOutcomePerRecipient ==
    /\ Len(results) <= Len(work)
    /\ \A i \in Recorded :
         /\ results[i].recipient = work[i].address
         /\ results[i].amount = work[i].amount
    /\ Returned => Len(results) = Len(work)

\* A returned list of three outcomes: a failure, then a success, then a
\* failure.
C12_Witness ==
    /\ Returned
    /\ Len(results) = 3
    /\ results[1].status = "failed"
    /\ results[2].status = "success"
    /\ results[3].status = "failed"

\* Every recipient has a well-formed address and a numeric positive amount,
\* and no address occurs twice after checksum normalization.
WellFormedList(rs) ==
    /\ \A i \in 1..Len(rs) :
         /\ isAddress(rs[i].address)
         /\ rs[i].amount \in Numerals
         /\ NumeralValue(rs[i].amount) > 0
    /\ \A i, j \in 1..Len(rs) :
         i < j => getAddress(rs[i].address) # getAddress(rs[j].address)

\* C13: a run whose recipient list is not well-formed is rejected before
\* executeTransfer is called for any recipient.
C13_ValidatedBeforeTransfer ==
    ~WellFormedList(recipients) =>
        /\ transferLog = <<>>
        /\ sent = <<>>

\* C14: when executeBatch has read the balances and the token balance is less
\* than the sum of the requested amounts, or the native balance less than the
\* estimated gas cost, the run is rejected: nothing was broadcast, no
\* transfer was attempted and no outcome recorded.
C14_InsufficientBalanceAborts ==
    (entry = "executeBatch" /\ (short.token \/ short.matic)) =>
        /\ bpc = "rejected"
        /\ sent = <<>>
        /\ transferLog = <<>>
        /\ results = <<>>

\* C15: in a dry run nothing is ever broadcast, and every executeTransfer
\* call whose estimation steps succeeded is recorded as a success carrying
\* the all-zero placeholder hash.
C15_DryRunNeverBroadcasts ==
    bconfig.dryRun =>
        /\ sent = <<>>
        /\ \A k \in 1..Len(transferLog) :
             /\ ~transferLog[k].broadcast
             /\ transferLog[k].estimated =>
                    /\ transferLog[k].idx \in Recorded
                    /\ results[transferLog[k].idx].status = "success"
                    /\ results[transferLog[k].idx].txHash = ZeroHash

\* A dry run that returned a list holding a placeholder success and a
\* transfer whose estimation failed.
C15_Witness ==
    /\ bconfig.dryRun
    /\ Returned
    /\ \E i, j \in Recorded :
         /\ results[i].status = "success"
         /\ results[i].txHash = ZeroHash
         /\ results[j].status = "failed"
         /\ \E k \in CallsFor(j) : ~transferLog[k].estimated

\* The hash of the transaction broadcast for recipient idx.
HashFor(idx) == TxHash(CHOOSE s \in 1..Len(sent) : sent[s].idx = idx)

\* C16: in a live run, an executeTransfer call whose transaction was
\* broadcast and whose confirmation wait failed with a rate-limit error is
\* recorded as a success carrying the hash of that transaction and no block
\* number.
C16_RateLimitedWaitIsSuccess ==
    ~bconfig.dryRun =>
        \A k \in 1..Len(transferLog) :
            (transferLog[k].broadcast /\ mentionsRateLimit(transferLog[k].failure)) =>
                /\ transferLog[k].idx \in Recorded
                /\ results[transferLog[k].idx].status = "success"
                /\ results[transferLog[k].idx].txHash = HashFor(transferLog[k].idx)
                /\ results[transferLog[k].idx].blockNumber = "undefined"

\* A live run with a broadcast transfer whose wait failed with a rate-limit
\* error, next to one whose wait failed with another error and is recorded
\* as failed.
C16_Witness ==
    /\ ~bconfig.dryRun
    /\ \E k, l \in 1..Len(transferLog) :
         /\ transferLog[k].broadcast
         /\ mentionsRateLimit(transferLog[k].failure)
         /\ results[transferLog[k].idx].txHash = HashFor(transferLog[k].idx)
         /\ transferLog[l].broadcast
         /\ transferLog[l].failure = "execution reverted"
         /\ results[transferLog[l].idx].status = "failed"

\* The last executeTransfer call made for recipient idx.
LastCallFor(idx) == CHOOSE k \in CallsFor(idx) : \A l \in CallsFor(idx) : l <= k

\* C17: a failed outcome caused by a failing provider call (gas estimation,
\* broadcast, confirmation wait) is recorded only after executeTransfer was
\* called for that recipient as many times as the attempt cap allows.
C17_FailuresRetriedToCap ==
    \A i \in Recorded :
        (/\ results[i].status = "failed"
         /\ CallsFor(i) # {}
         /\ transferLog[LastCallFor(i)].failure \in ProviderErrors) =>
            Cardinality(CallsFor(i)) = bconfig.maxRetries

\* C18: every failed outcome carries the error text of the failure of the
\* last executeTransfer call made for its recipient, and an attempts value
\* equal to the number of executeTransfer calls made for it.
C18_FailedOutcomeAccounting ==
    \A i \in Recorded :
        results[i].status = "failed" =>
            /\ results[i].attempts = Cardinality(CallsFor(i))
            /\ CallsFor(i) # {} => results[i].error = transferLog[LastCallFor(i)].failure

\* C19: in a live run, every recorded failure whose provider error is a
\* rate-limit error is followed by the rate-limit cooldown, taken after that
\* recipient and before the next one is started.
C19_CooldownAfterRateLimit ==
    ~bconfig.dryRun =>
        \A i \in Recorded :
            (/\ results[i].status = "failed"
             /\ CallsFor(i) # {}
             /\ mentionsRateLimit(transferLog[LastCallFor(i)].failure)) =>
                \E p \in 1..Len(pauses) :
                    pauses[p] = [ms |-> RateLimitCooldownMs, after |-> i]

\* C20: when a run has failed after outcomes were recorded, the caller holds
\* those outcomes and a report was generated from them.
C20_PartialOutcomesReported ==
    (bpc = "failed" /\ results # <<>>) =>
        /\ received = results
        /\ report = generateReport(results)

\* ---- report phase

\* The k-th smallest member of a set of indices.
Nth(S, k) == CHOOSE i \in S : Cardinality({j \in S : j <= i}) = k

\* The outcomes at the indices S, in their original order.
Picked(S) == [k \in 1..Cardinality(S) |-> outcomes[Nth(S, k)]]

WithStatus(st) == {i \in 1..Len(outcomes) : outcomes[i].status = st}

\* C21: the failed-transfers file, given unchanged to a new run as its
\* recipient input, is accepted and yields exactly the {address, amount}
\* pairs of the failed outcomes, in the same order with the same values.
C21_FailedFileRoundTrip ==
    ppc = "reloaded" =>
        /\ loaded.accepted
        /\ loaded.recipients =
               [k \in 1..Cardinality(WithStatus("failed")) |->
                   [address |-> Picked(WithStatus("failed"))[k].recipient,
                    amount |-> Picked(WithStatus("failed"))[k].amount]]

Attempted(file) == \E i \in 1..Len(writes) : writes[i].file = file

\* C22: once the report phase of a run with failed outcomes is over, both
\* the write of the batch report and the write of the failed-transfers file
\* have been attempted, whichever of them failed.
C22_WritesIndependent ==
    (ppc \in {"finished", "exited"} /\ WithStatus("failed") # {}) =>
        Attempted("report") /\ Attempted("failed")

\* C23: the generated report counts every outcome, its successful and
\* failed counts add up to that number, its failed list is the failed
\* outcomes in their original order, and its amount and gas totals are the
\* sums (as the number type adds them) over the successful outcomes only.
C23_ReportTotals ==
    batchReport.generated =>
        /\ batchReport.totalRecipients = Len(outcomes)
        /\ batchReport.successful + batchReport.failed = batchReport.totalRecipients
        /\ batchReport.successful = Cardinality(WithStatus("success"))
        /\ batchReport.failedList = Picked(WithStatus("failed"))
        /\ batchReport.totalAmountSent =
               ToString(reduceSum([k \in 1..Cardinality(WithStatus("success")) |->
                   Picked(WithStatus("success"))[k].amount]))
        /\ batchReport.totalGasCostMatic =
               ToString(reduceSum([k \in 1..Cardinality(WithStatus("success")) |->
                   Picked(WithStatus("success"))[k].gasCostMatic]))

\* A report over a full list that has a failure between two successes.
C23_Witness ==
    /\ batchReport.generated
    /\ Len(outcomes) = MaxRecipients
    /\ outcomes[1].status = "success"
    /\ outcomes[2].status = "failed"
    /\ outcomes[MaxRecipients].status = "success"
    /\ batchReport.totalAmountSent # "0"

\* ---- explorer client

\* An answer with failure status '0' whose message is no no-data sentinel.
ApiFailure(resp) ==
    resp.resolved /\ resp.status = "0" /\ resp.message \notin NoDataMessages

\* C24: a call whose last answer has failure status '0' and a message that
\* is no no-data sentinel never ends with data: the failure goes to the retry
\* loop, and the error the caller gets carries 'API Error: <message>'.
C24_ApiErrorReachesCaller ==
    \A r \in Reqs :
        ApiFailure(xcall[r].answer) =>
            /\ xcall[r].result.kind # "data"
            /\ xcall[r].pc = "ended" =>
                   /\ outcome[r] = "error"
                   /\ xcall[r].result.originalError =
                          "API Error: " \o xcall[r].answer.message

C26_AllOrNothing ==
    \A c \in Categories :
        fetch[c].pc = "rejected" =>
            /\ fpc = "rejected"
            /\ filterError = fetch[c].error
            /\ filterResult = <<>>
            /\ parsed = <<>>

\* A fetch failed after every other one had succeeded, one of them with rows.
C26_Witness ==
    \E c \in Categories :
        /\ fetch[c].pc = "rejected"
        /\ \A d \in Categories \ {c} : fetch[d].pc = "fulfilled"
        /\ \E d \in Categories \ {c} : Len(fetch[d].records) > 0
        /\ included(filter, "getInternalTransactions")
        /\ included(filter, "getERC721Transfers")

\* The fetched records of category c within [startDate, endDate] (a record's
\* timestamp is in seconds, the dates in milliseconds) and with the direction
\* the filter asks for.
Wanted(c) ==
    SelectSeq(fetch[c].records, LAMBDA tx :
        /\ filter.startDate <= 1000 * parseInt(tx.timeStamp)
        /\ 1000 * parseInt(tx.timeStamp) <= filter.endDate
        /\ filter.incomingOnly => toLowerCase(tx.to) = toLowerCase(filter.address)
        /\ filter.outgoingOnly => toLowerCase(tx.from) = toLowerCase(filter.address))

\* C27: the records kept in each category are exactly the fetched records
\* with startDate <= t <= endDate and, under incomingOnly (outgoingOnly),
\* with `to` (`from`) equal to the queried address ignoring case.
C27_KeptAreInRange ==
    fpc = "returned" => \A c \in Categories : kept[c] = Wanted(c)

\* C28: there is one result entry a retained transaction, and the token
\* transfers of an entry are all the retained transfers of the three
\* standards with the hash of its transaction, in one list.
C28_TransfersGroupedByHash ==
    fpc = "returned" =>
        /\ Len(parsed) = Len(kept["getTokenTransfers"]) + Len(kept["getERC721Transfers"])
                             + Len(kept["getERC1155Transfers"])
        /\ Len(filterResult) = Len(kept["getTransactions"])
        /\ \A i \in 1..Len(filterResult) :
            /\ filterResult[i].transaction = kept["getTransactions"][i]
            /\ \A j \in 1..Len(filterResult[i].tokenTransfers) :
                   filterResult[i].tokenTransfers[j].transactionHash
                       = filterResult[i].transaction.hash
            /\ Len(filterResult[i].tokenTransfers) =
                   Cardinality({j \in 1..Len(parsed) :
                       parsed[j].transactionHash = filterResult[i].transaction.hash})
            /\ \A j \in 1..Len(parsed) :
                   parsed[j].transactionHash = filterResult[i].transaction.hash =>
                       parsed[j] \in SeqToSet(filterResult[i].tokenTransfers)

\* An entry carries a transfer of each of the three standards.
C28_Witness ==
    /\ fpc = "returned"
    /\ \E i \in 1..Len(filterResult) :
         /\ Len(filterResult[i].tokenTransfers) = 3
         /\ \A s \in {"ERC20", "ERC721", "ERC1155"} :
                \E j \in 1..3 : filterResult[i].tokenTransfers[j].standard = s

\* C29: a contract whose metadata fetch failed got null and is not cached;
\* the call does not reject, and it returns the contract's transfers with
\* the metadata of the transfer record.
C29_MetadataFailureTolerated ==
    \A t \in Contracts :
        metadataMap[t] = "null" =>
            /\ fpc \in {"metadata", "returned"}
            /\ t \notin tokenMetadataCache
            /\ fpc = "returned" =>
                   /\ Len(parsed) = Len(allTransfers(kept))
                   /\ \A j \in 1..Len(parsed) :
                          parsed[j].contractAddress = t =>
                              parsed[j].tokenMetadata = "basic"

\* A call returned transfers of two contracts: the metadata of one was
\* fetched, the fetch for the other failed.
C29_Witness ==
    /\ fpc = "returned"
    /\ \E t, u \in Contracts :
         /\ metadataMap[t] = "null"
         /\ metadataMap[u] = "info"
         /\ \E j \in 1..Len(parsed) : parsed[j].contractAddress = t
         /\ \E j \in 1..Len(parsed) :
                parsed[j].contractAddress = u /\ parsed[j].tokenMetadata = "enriched"

\* The logical calls whose retry sequence has begun and not ended.
InProgress == {r \in Reqs : xcall[r].pc \in {"get", "sleep"}}

\* C30: activeRequests is the number of logical calls between their dispatch
\* and the end of their retry sequence, attempts that failed and backoff
\* delays included; it never exceeds maxConcurrent, and a call that ended
\* was settled once.
C30_SlotHeldAcrossRetries ==
    /\ activeRequests = Cardinality(InProgress)
    /\ Cardinality(InProgress) <= maxConcurrent
    /\ \A r \in Reqs :
        /\ r \in InProgress => status[r] = "running"
        /\ xcall[r].pc = "ended" => status[r] = "settled" /\ settles[r] = 1

\* A call sleeps between two attempts while every slot is taken and another
\* call waits in the queue.
C30_Witness ==
    /\ \E r \in Reqs : xcall[r].pc = "sleep" /\ xcall[r].attempt >= 1
    /\ activeRequests = maxConcurrent
    /\ Len(queue) > 0


\* ---------------------------------------------------------------- C31
RECURSIVE Flatten(_)
Flatten(ps) == IF ps = <<>> THEN <<>> ELSE Head(ps) \o Flatten(Tail(ps))

PagesConsecutive ==
    /\ \A i \in 1..Len(requests) :
         requests[i] = [page |-> i, offset |-> PageSize]
    /\ Len(requests) = Len(pages) + (IF gpc \in {"awaiting", "rejected"} THEN 1 ELSE 0)

StopsAtFirstShortPage ==
    /\ \A i \in 1..Len(pages) :
         Len(pages[i]) < PageSize => i = Len(pages) /\ gpc = "returned"
    /\ gpc = "returned" => Len(pages[Len(pages)]) < PageSize

C32_QueriedOnce ==
    \A t \in Contracts : succeeded[t] <= 1


\* ---------------------------------------------------------------- C33
\* C33: at most one transfer is in progress: every call of executeTransfer
\* is for the recipient right after the recorded outcomes, and a batch is
\* started only when every transfer of the batches before it has an outcome.
C33_OneTransferAtATime ==
    /\ \A i \in 1..Len(transferLog) : transferLog[i].idx <= Len(results) + 1
    /\ \A i \in 1..(Len(transferLog) - 1) : transferLog[i].idx <= transferLog[i + 1].idx
    /\ bpc = "transfer" => nextIdx = Len(results) + 1
    /\ Len(fetched) >= 1 =>
         /\ Len(results) >= (Len(fetched) - 1) * bconfig.batchSize
         /\ Len(results) <= Len(fetched) * bconfig.batchSize

C33_Witness ==
    /\ bpc = "transfer"
    /\ rpc = "loop"
    /\ Len(fetched) = 2
    /\ Len(results) = bconfig.batchSize
    /\ Len(transferLog) >= 2


\* ---------------------------------------------------------------- C34
SameBatch(i, j) == (i - 1) \div bconfig.batchSize = (j - 1) \div bconfig.batchSize

\* C34: no two transactions the chain accepted within one batch carry the
\* same nonce.
C34_FreshNonces ==
    \A i, j \in 1..Len(sent) :
        i < j /\ SameBatch(sent[i].idx, sent[j].idx) => sent[i].nonce # sent[j].nonce

\* ---------------------------------------------------------------- C35
\* C35: a recipient whose outcome is recorded as failed had no transaction
\* accepted by the chain.
C35_FailedMeansNotSent ==
    \A i \in 1..Len(results) :
        results[i].status = "failed" => \A j \in 1..Len(sent) : sent[j].idx # i


\* ---------------------------------------------------------------- C36
\* A call of executeTransfer that went as far as wallet.sendTransaction.
Broadcasting(e) == e.estimated /\ ~bconfig.dryRun

\* C36: at most one transaction is broadcast per recipient: a call of
\* executeTransfer that is followed by another one for the same recipient
\* did not reach sendTransaction.
C36_OneBroadcastPerRecipient ==
    /\ \A i, j \in 1..Len(transferLog) :
         i < j /\ transferLog[i].idx = transferLog[j].idx => ~Broadcasting(transferLog[i])
    /\ \A i, j \in 1..Len(sent) : i < j => sent[i].idx # sent[j].idx

\* A run in which one recipient's transfer was retried and another
\* recipient's transaction was broadcast.
C36_Witness ==
    /\ \E i, j \in 1..Len(transferLog) : i < j /\ transferLog[i].idx = transferLog[j].idx
    /\ \E k \in 1..Len(transferLog) : Broadcasting(transferLog[k]) /\ transferLog[k].broadcast


\* ---------------------------------------------------------------- C37
\* C37: the report on disk holds nothing derived from the private key: its
\* senderAddress is the address of the sender's wallet.
C37_SenderIsWalletAddress ==
    senderAddress # <<>> => senderAddress = signer.address


\* ---------------------------------------------------------------- C38
RECURSIVE attachedCount(_)
attachedCount(entries) ==
    IF entries = <<>> THEN 0
    ELSE Len(Head(entries).tokenTransfers) + attachedCount(Tail(entries))

summaryTokenTotals ==
    Len(kept["getTokenTransfers"]) + Len(kept["getERC721Transfers"])
        + Len(kept["getERC1155Transfers"])

\* C38: every token transfer counted in the summary totals is in the
\* tokenTransfers list of exactly one result entry, so the transfers attached
\* over all entries are as many as the three totals together.
C38_TransfersAttachedOnce ==
    fpc = "returned" =>
        /\ attachedCount(filterResult) = summaryTokenTotals
        /\ \A j \in 1..Len(parsed) :
               Cardinality({i \in 1..Len(filterResult) :
                   parsed[j].transactionHash = filterResult[i].transaction.hash}) = 1


\* ---------------------------------------------------------------- C39
InQueue == SeqToSet(queue)
DispatchedUnsettled == {r \in Dispatched : settles[r] = 0}
SettledRequests == {r \in Reqs : settles[r] >= 1}
ConditionsOf(r) ==
    (IF r \in InQueue THEN 1 ELSE 0) + (IF r \in DispatchedUnsettled THEN 1 ELSE 0)
        + (IF r \in SettledRequests THEN 1 ELSE 0)

\* C39: every enqueued request is in exactly one of three conditions: pending
\* in the queue, dispatched and unsettled, or settled; activeRequests is the
\* number of dispatched and unsettled requests, never negative, and 0 once
\* every dispatched operation has settled.
C39_QueuePartition ==
    /\ \A r \in Reqs : ConditionsOf(r) = IF r <= enqueued THEN 1 ELSE 0
    /\ Cardinality(InQueue) = Len(queue)
    /\ activeRequests = Cardinality(DispatchedUnsettled)
    /\ activeRequests >= 0
    /\ (\A r \in Dispatched : settles[r] >= 1) => activeRequests = 0

\* One request in each of the three conditions.
C39_Witness ==
    /\ Len(queue) = 1
    /\ Cardinality(DispatchedUnsettled) = 1
    /\ Cardinality(SettledRequests) = 1
    /\ activeRequests = 1


\* ---------------------------------------------------------------- C40
\* C40: for every recipient list and every batchSize the run comes to an
\* end; its first step, chunkArray, returns.
C40_ChunkingTerminates ==
    <>(cpc = "returned")

====
